---------------------------- MODULE Spec2Model ----------------------------
(***************************************************************************)
(* A model of portablesource-cli: the repository lifecycle                 *)
(* (clone / pull / repair / re-clone), the resumable artifact download,    *)
(* the toolchain acquisition, the GPU capability detection, the            *)
(* requirement-manifest partition and the bucket-by-bucket dependency      *)
(* installation.  Strings are TLA+ strings; the text operations of the     *)
(* program (contains, starts_with, split, trim, to_lowercase) are computed *)
(* character by character.                                                 *)
(***************************************************************************)
EXTENDS Integers, Sequences, FiniteSets, TLC

(***************************************************************************)
(* Text helpers (the std::str operations the program relies on)            *)
(***************************************************************************)
Char(s, i) == SubSeq(s, i, i)

Contains(s, p) == \E i \in 1..(Len(s) - Len(p) + 1) : SubSeq(s, i, i + Len(p) - 1) = p

StartsWith(s, p) == Len(p) <= Len(s) /\ SubSeq(s, 1, Len(p)) = p

Digits == "0123456789"

Whitespace == {" ", "\t"}

\* Index of the first character of s that is in set, 0 when there is none
\* (str::find with a character predicate).
Find(s, set) ==
    IF \E i \in 1..Len(s) : Char(s, i) \in set
      THEN CHOOSE i \in 1..Len(s) :
              Char(s, i) \in set /\ \A j \in 1..(i - 1) : Char(s, j) \notin set
      ELSE 0

RECURSIVE TrimStart(_, _)
TrimStart(s, set) ==
    IF s # "" /\ Char(s, 1) \in set THEN TrimStart(Tail(s), set) ELSE s

RECURSIVE TrimEnd(_, _)
TrimEnd(s, set) ==
    IF s # "" /\ Char(s, Len(s)) \in set THEN TrimEnd(SubSeq(s, 1, Len(s) - 1), set) ELSE s

TrimMatches(s, set) == TrimEnd(TrimStart(s, set), set)

Trim(s) == TrimMatches(s, Whitespace)

RECURSIVE Split(_, _)
Split(s, sep) ==
    LET i == Find(s, {sep})
    IN IF i = 0 THEN <<s>>
       ELSE <<SubSeq(s, 1, i - 1)>> \o Split(SubSeq(s, i + 1, Len(s)), sep)

UpperAlphabet == "ABCDEFGHIJKLMNOPQRSTUVWXYZ"
LowerAlphabet == "abcdefghijklmnopqrstuvwxyz"

\* Maps the characters of s that occur in `from` to the character at the
\* same place of `to` (to_lowercase / to_uppercase on ASCII text).
RECURSIVE MapCase(_, _, _)
MapCase(s, from, to) ==
    IF s = "" THEN ""
    ELSE LET c == Char(s, 1)
             k == Find(from, {c})
         IN (IF k = 0 THEN c ELSE Char(to, k)) \o MapCase(Tail(s), from, to)

ToLower(s) == MapCase(s, UpperAlphabet, LowerAlphabet)

RECURSIVE Dec(_)
Dec(n) == IF n < 10 THEN Char(Digits, n + 1)
          ELSE Dec(n \div 10) \o Char(Digits, (n % 10) + 1)

(***************************************************************************)
(* State                                                                   *)
(***************************************************************************)
VARIABLES
    platform,       \* "windows" | "unix": the target of the build (cfg!(windows))
    \* ---- repository lifecycle ----
    gitPc,          \* position inside clone_or_update_repository
    repoDir,        \* repo_path on disk: "absent" | "empty" | "nogit" | "git"
    url,            \* repo_info.url is Some(..)
    attempt,        \* loop variable of update_repository_with_fixes
    gitLog,         \* the git commands issued so far, oldest first
    pullErr,        \* e.to_string() of the last git pull ("" when it succeeded)
    pullCode,       \* its exit code (0 on success, -1 when it could not be spawned)
    updateResult,   \* what update_repository_with_fixes returned ("none" before)
    ensureResult,   \* what clone_or_update_repository returned ("none" before)
    \* ---- resumable download ----
    dlPc,           \* position inside download_with_resume
    destExists,     \* destination.exists()
    destBytes,      \* the bytes of the destination file
    existing_len,   \* the length read before the first request
    requests,       \* the HTTP requests sent so far, with their Range offset
    firstReply,     \* how the server answered the first request
    pending,        \* the bytes of the response body not yet read
    writePos,       \* the offset of the open file handle
    dlResult,       \* what download_with_resume returned ("none" before)
    \* ---- dependency installation ----
    manifest,       \* the lines of the requirements file
    plan,           \* the InstallationPlan built from it
    instPath,       \* which executor runs the plan
    instPc,         \* position inside the executor
    uv_available,   \* result of install_uv_in_venv
    pkgIdx,         \* loop index inside the per-package loops
    invocations,    \* the package-manager invocations issued so far
    instResult,     \* what the executor returned ("none" before)
    \* ---- session: toolchain acquisition and install requests ----
    sessPc,         \* the command the session is running, and where it is
    marker,         \* per component: its marker executable exists
    sevenZip,       \* ps_env/7z.exe exists
    cuda_plan,      \* the configured profile asks for the CUDA runtime
    task,           \* per component: the state of its spawned task
    joinIdx,        \* the handle the join loop is waiting for
    lastAcq,        \* the last install_portable_tool call and what it did
    presentAtSetup, \* the components whose marker existed when setup began
    setupDid,       \* the activity of the running (or last) setup
    lastResult,     \* what the last command returned
    \* ---- capability detection ----
    gpuPc,          \* "start", "nvidia", "best", "done"
    probes,         \* what the host's probes answer
    nvidia,         \* the result of detect_nvidia_gpu
    best,           \* the result of get_best_gpu
    gpu_config,     \* the result of configure_gpu_from_detection
    \* ---- progress reporting of the concurrent toolchain tasks ----
    progPc,         \* per component: where its task is
    completed,      \* the shared counter of completed steps
    done_now,       \* per component: the counter value its task last read
    \* ---- install_dependencies of one repository ----
    envPc,          \* "idle", "venv", "server", "pyproject", "requirements", "done"
    repoInput,      \* what the run finds: old environment, server plan, manifests
    envDir,         \* envs/<name>: "absent", "old" (previous content), "fresh"
    envLog,         \* the environment and package-manager events of the run
    envResult,      \* what install_dependencies returned ("none" before)
    exitCode,       \* the exit code of the process (-1 while it runs)
    \* acquisition of one toolchain component (envs_manager.rs)
    acqPc,          \* "idle", "start", "download", "extract", "cleanup", "verify", "done"
    component,      \* a tool (install_portable_tool) or "cuda" (setup_environment)
    archive,        \* the downloaded archive: "none", "partial" or "full"
    markerPresent,  \* the executable, or CUDA/bin, exists
    acqResult,      \* "none", "Ok" or the error of the task
    \* plan choices (config.rs, repository_installer.rs)
    choicePc,       \* "idle", "configure", "plan"
    deviceName,     \* the name of the detected device
    profile,        \* the stored GPU configuration
    planRuns,       \* the choices of the installations so far
    onnxLine,       \* the onnxruntime line of the manifest being installed
    \* format_file_size (utils.rs)
    fmtPc,          \* "idle", "input", "done"
    size_bytes,     \* the size, in base 1024
    formatted,      \* the text format_file_size returned
    \* the shared unpack utility ps_env/7z.exe (envs_manager.rs)
    szPc,           \* per task: "idle", "check", "request", "write", "spawn", "done", "failed"
    szFile,         \* 7z.exe: whether it exists and its length in chunks
    szPos,          \* per task: the offset of its file handle
    szDownloaded,   \* the tasks that downloaded 7z.exe
    szRaces,        \* what a task did to 7z.exe while another task was writing it
    \* installed repositories on disk (repository_installer.rs)
    storePc,        \* "idle", "ready", "installed", "failed", "deleted"
    repos,          \* the directory names under repos/
    envs,           \* the directory names under envs/
    installedAs,    \* per successful install: the listed name and the environment it created
    lastDelete,     \* the name last deleted, with the environment its install had created
    \* the onnxruntime name substitution (repository_installer.rs)
    subPc,          \* "idle", "input", "once", "twice"
    subName,        \* the name of the device of the stored profile
    subBase,        \* the package spec of the plan step
    subOnce,        \* the substitution applied to subBase
    subTwice        \* the substitution applied to subOnce

gitVars == <<gitPc, repoDir, url, attempt, gitLog, pullErr, pullCode, updateResult,
            ensureResult>>

dlVars == <<dlPc, destExists, destBytes, existing_len, requests, firstReply, pending,
            writePos, dlResult>>

instVars == <<manifest, plan, instPath, instPc, uv_available, pkgIdx, invocations, instResult>>

sessVars == <<sessPc, marker, sevenZip, cuda_plan, task, joinIdx, lastAcq, presentAtSetup,
              setupDid, lastResult>>

gpuVars == <<gpuPc, probes, nvidia, best, gpu_config>>

progVars == <<progPc, completed, done_now>>

envVars == <<envPc, repoInput, envDir, envLog, envResult, exitCode>>

acqVars == <<acqPc, component, archive, markerPresent, acqResult>>

choiceVars == <<choicePc, deviceName, profile, planRuns, onnxLine>>

fmtVars == <<fmtPc, size_bytes, formatted>>

szVars == <<szPc, szFile, szPos, szDownloaded, szRaces>>

storeVars == <<storePc, repos, envs, installedAs, lastDelete>>

subVars == <<subPc, subName, subBase, subOnce, subTwice>>

vars ==
    <<platform, gitVars, dlVars, instVars, sessVars, gpuVars, progVars, envVars, acqVars,
      choiceVars, fmtVars, szVars,
      storeVars,
      subVars>>

nonGitVars ==
    <<platform, dlVars, instVars, sessVars, gpuVars, progVars, envVars, acqVars,
      choiceVars, fmtVars, szVars,
      storeVars,
      subVars>>

nonDlVars ==
    <<platform, gitVars, instVars, sessVars, gpuVars, progVars, envVars, acqVars,
      choiceVars, fmtVars, szVars,
      storeVars,
      subVars>>

nonInstVars ==
    <<platform, gitVars, dlVars, sessVars, gpuVars, progVars, envVars, acqVars,
      choiceVars, fmtVars, szVars,
      storeVars,
      subVars>>

nonSessVars ==
    <<platform, gitVars, dlVars, instVars, gpuVars, progVars, envVars, acqVars,
      choiceVars, fmtVars, szVars,
      storeVars,
      subVars>>

nonProgVars ==
    <<platform, gitVars, dlVars, instVars, sessVars, gpuVars, envVars, acqVars,
      choiceVars, fmtVars, szVars,
      storeVars,
      subVars>>

nonEnvVars ==
    <<platform, gitVars, dlVars, instVars, sessVars, gpuVars, progVars, acqVars,
      choiceVars, fmtVars, szVars,
      storeVars,
      subVars>>

nonGpuVars ==
    <<platform, gitVars, dlVars, instVars, sessVars, progVars, envVars, acqVars,
      choiceVars, fmtVars, szVars,
      storeVars,
      subVars>>

nonAcqVars ==
    <<platform, gitVars, dlVars, instVars, sessVars, gpuVars, progVars, envVars,
      choiceVars, fmtVars, szVars,
      storeVars,
      subVars>>

nonChoiceVars ==
    <<platform, gitVars, dlVars, instVars, sessVars, gpuVars, progVars, envVars, acqVars,
      fmtVars, szVars,
      storeVars,
      subVars>>

nonFmtVars ==
    <<platform, gitVars, dlVars, instVars, sessVars, gpuVars, progVars, envVars, acqVars,
      choiceVars, szVars,
      storeVars,
      subVars>>

nonSzVars ==
    <<platform, gitVars, dlVars, instVars, sessVars, gpuVars, progVars, envVars, acqVars,
      choiceVars, fmtVars,
      storeVars,
      subVars>>

nonStoreVars ==
    <<platform, gitVars, dlVars, instVars, sessVars, gpuVars, progVars, envVars, acqVars,
      choiceVars, fmtVars, szVars,
      subVars>>

nonSubVars ==
    <<platform, gitVars, dlVars, instVars, sessVars, gpuVars, progVars, envVars, acqVars,
      choiceVars, fmtVars, szVars,
      storeVars>>

Platforms == {"windows", "unix"}

(***************************************************************************)
(* Resumable download (download_with_resume and its static twin)           *)
(***************************************************************************)
ArtifactLen == 4

\* The bytes the server holds for the artifact.
Remote == SubSeq("abcdefgh", 1, ArtifactLen)

DlIdle ==
    /\ dlPc = "idle"
    /\ destExists = FALSE
    /\ destBytes = ""
    /\ existing_len = 0
    /\ requests = <<>>
    /\ firstReply = "none"
    /\ pending = ""
    /\ writePos = 0
    /\ dlResult = "none"

\* Before the call the destination is absent, or holds the first bytes of
\* the artifact left by an interrupted download (possibly none, or all).
DlInit ==
    /\ dlPc = "start"
    /\ \E n \in 0..ArtifactLen : destBytes = SubSeq(Remote, 1, n)
    /\ destExists \in BOOLEAN
    /\ ~destExists => destBytes = ""
    /\ existing_len = 0
    /\ requests = <<>>
    /\ firstReply = "none"
    /\ pending = ""
    /\ writePos = 0
    /\ dlResult = "none"

\* What a server can answer to a request.  A Range request is honoured
\* with 206 and the bytes from the offset on (416 when nothing is left),
\* ignored with 200 and the whole body, or refused with an error status;
\* a plain request gets 200 and the whole body, or an error status; the
\* request can also fail to be sent.
Plain == [ranged |-> FALSE, from |-> 0]

\* A Range request that starts one byte before the on-disk length.
Ranged_shifted(n) == [ranged |-> TRUE, from |-> n - 1]
Ranged(n) == [ranged |-> TRUE, from |-> n]

Replies(req) ==
    IF ~req.ranged
      THEN {[kind |-> "full", body |-> Remote],
            [kind |-> "status", body |-> ""],
            [kind |-> "senderr", body |-> ""]}
      ELSE {[kind |-> "full", body |-> Remote],
            [kind |-> "status", body |-> ""],
            [kind |-> "senderr", body |-> ""]}
           \cup (IF req.from < Len(Remote)
                   THEN {[kind |-> "partial", body |-> SubSeq(Remote, req.from + 1, Len(Remote))]}
                   ELSE {})

\* file.write_all of one byte at the handle's offset: the handle was opened
\* without truncation, so bytes beyond the offset stay.
WriteAt(bytes, pos, b) ==
    SubSeq(bytes, 1, pos) \o b \o SubSeq(bytes, pos + 2, Len(bytes))

\* The first request and the handling of its status.
DlRequest ==
    /\ dlPc = "start"
    /\ LET len == IF destExists THEN Len(destBytes) ELSE 0
           req == IF len > 0 THEN Ranged(len) ELSE Plain
       IN /\ existing_len' = len
          /\ requests' = Append(requests, req)
          /\ \E r \in Replies(req) :
               /\ firstReply' = r.kind
               /\ CASE r.kind = "senderr" ->
                         /\ dlPc' = "done"
                         /\ dlResult' = "HTTP request error"
                         /\ UNCHANGED <<destExists, destBytes, pending, writePos>>
                    [] r.kind = "status" /\ len > 0 ->
                         /\ dlPc' = "retry"
                         /\ UNCHANGED <<destExists, destBytes, pending, writePos, dlResult>>
                    [] r.kind = "status" /\ len = 0 ->
                         /\ dlPc' = "done"
                         /\ dlResult' = "Environment error: Download failed: HTTP"
                         /\ UNCHANGED <<destExists, destBytes, pending, writePos>>
                    [] OTHER ->
                         /\ dlPc' = "body"
                         /\ pending' = r.body
                         /\ destExists' = TRUE
                         /\ writePos' = IF destExists /\ len > 0 THEN Len(destBytes) ELSE 0
                         /\ UNCHANGED <<destBytes, dlResult>>
    /\ UNCHANGED nonDlVars

\* The plain request sent after a Range request was answered with an error
\* status; on success the old file is removed (a failure of the removal is
\* ignored) and a new handle is opened at offset 0.
DlRetry ==
    /\ dlPc = "retry"
    /\ requests' = Append(requests, Plain)
    /\ \E r \in Replies(Plain) :
         CASE r.kind = "senderr" ->
                /\ dlPc' = "done"
                /\ dlResult' = "HTTP request error"
                /\ UNCHANGED <<destExists, destBytes, pending, writePos>>
           [] r.kind = "status" ->
                /\ dlPc' = "done"
                /\ dlResult' = "Environment error: Download failed: HTTP"
                /\ UNCHANGED <<destExists, destBytes, pending, writePos>>
           [] OTHER ->
                /\ dlPc' = "body"
                /\ pending' = r.body
                /\ destExists' = TRUE
                /\ \E removed \in BOOLEAN :
                     destBytes' = IF removed THEN "" ELSE destBytes
                /\ writePos' = 0
                /\ UNCHANGED dlResult
    /\ UNCHANGED <<existing_len, firstReply>>
    /\ UNCHANGED nonDlVars

\* One turn of the copy loop: a byte is read and written, the body ends,
\* or the read fails.
DlRead ==
    /\ dlPc = "body"
    /\ \/ /\ pending # ""
          /\ destBytes' = WriteAt(destBytes, writePos, Char(pending, 1))
          /\ writePos' = writePos + 1
          /\ pending' = Tail(pending)
          /\ UNCHANGED <<dlPc, dlResult>>
       \/ /\ pending = ""
          /\ dlPc' = "done"
          /\ dlResult' = "Ok"
          /\ UNCHANGED <<destBytes, writePos, pending>>
       \/ /\ pending # ""
          /\ dlPc' = "done"
          /\ dlResult' = "IO error"
          /\ UNCHANGED <<destBytes, writePos, pending>>
    /\ UNCHANGED <<destExists, existing_len, requests, firstReply>>
    /\ UNCHANGED nonDlVars

DlNext == DlRequest \/ DlRetry \/ DlRead

(***************************************************************************)
(* Repository lifecycle                                                    *)
(***************************************************************************)
max_attempts_off == 3 + 1
max_attempts == 3

\* Display of std::process::ExitStatus: "exit code: N" on Windows,
\* "exit status: N" on Unix.
ExitStatusDisplay(pf, code) ==
    IF pf = "windows" THEN "exit code: " \o Dec(code) ELSE "exit status: " \o Dec(code)

\* The text of the error run_with_progress_typed returns for a finished,
\* unsuccessful child, as PortableSourceError::Command displays it.
CommandErrorText(pf, code, stderr) ==
    "Command execution failed: Command failed with status: " \o ExitStatusDisplay(pf, code)
        \o (IF stderr # "" THEN "\nError output:\n" \o stderr ELSE "")

SpawnErrorText == "Command execution failed: No such file or directory (os error 2)"

\* Exit codes a failing git can report; a 32-bit code such as 1280 exists
\* only on Windows.
ExitCodes(pf) == IF pf = "windows" THEN {1, 128, 1280} ELSE {1, 128}

StderrSamples == {"", "fatal: not a git repository", "hook failed, exit code: 128"}

\* Every error text one git invocation can end with.
GitErrors(pf) ==
    {CommandErrorText(pf, c, s) : c \in ExitCodes(pf), s \in StderrSamples}
        \cup {SpawnErrorText}

\* The same with the exit code each comes from.
GitOutcomes(pf) ==
    {[code |-> c, text |-> CommandErrorText(pf, c, s)] : c \in ExitCodes(pf), s \in StderrSamples}
        \cup {[code |-> -1, text |-> SpawnErrorText]}

CorruptedMsg == "Repository error: Repository corrupted (exit code 128) - removed for re-cloning"
FailedUpdateMsg == "Repository error: Failed to update repository"
NotGitMsg == "Repository error: Directory exists but is not a git repository"
MissingUrlMsg == "Repository error: Missing repository URL"

IsCorruptionError(e) == Contains(e, "exit code: 128")

Issue(cmd) == Append(gitLog, [cmd |-> cmd, pathState |-> repoDir])

GitInit ==
    /\ gitPc = "start"
    /\ repoDir \in {"absent", "empty", "nogit", "git"}
    /\ url \in BOOLEAN
    /\ attempt = 0
    /\ gitLog = <<>>
    /\ pullErr = ""
    /\ pullCode = 0
    /\ updateResult = "none"
    /\ ensureResult = "none"

GitIdle ==
    /\ gitPc = "idle"
    /\ repoDir = "absent"
    /\ url = FALSE
    /\ attempt = 0
    /\ gitLog = <<>>
    /\ pullErr = ""
    /\ pullCode = 0
    /\ updateResult = "none"
    /\ ensureResult = "none"

\* clone_or_update_repository taking every path without .git for a clone.
EnsureStart_clones ==
    /\ gitPc = "start"
    /\ IF repoDir = "git"
         THEN gitPc' = "pull" /\ ensureResult' = ensureResult
         ELSE gitPc' = "clone" /\ ensureResult' = ensureResult
    /\ UNCHANGED <<repoDir, url, attempt, gitLog, pullErr, pullCode, updateResult>>
    /\ UNCHANGED nonGitVars
\* clone_or_update_repository, up to its first git command.
EnsureStart ==
    /\ gitPc = "start"
    /\ IF repoDir = "absent"
         THEN gitPc' = "clone" /\ ensureResult' = ensureResult
         ELSE IF repoDir = "git"
                THEN gitPc' = "pull" /\ ensureResult' = ensureResult
                ELSE gitPc' = "done" /\ ensureResult' = NotGitMsg
    /\ UNCHANGED <<repoDir, url, attempt, gitLog, pullErr, pullCode, updateResult>>
    /\ UNCHANGED nonGitVars

\* One iteration of the loop of update_repository_with_fixes whose pull
\* succeeds: the loop and clone_or_update_repository return Ok.
PullOk ==
    /\ gitPc = "pull"
    /\ gitLog' = Issue("pull")
    /\ pullErr' = ""
    /\ pullCode' = 0
    /\ updateResult' = "Ok"
    /\ ensureResult' = "Ok"
    /\ gitPc' = "done"
    /\ UNCHANGED <<repoDir, url, attempt>>
    /\ UNCHANGED nonGitVars

\* An iteration whose pull fails with an error classified as corruption:
\* remove_dir_all runs (its failure is only logged), the loop returns the
\* corruption error and clone_or_update_repository falls through to clone.
PullCorrupted ==
    /\ gitPc = "pull"
    /\ \E o \in GitOutcomes(platform) :
         /\ IsCorruptionError(o.text)
         /\ pullErr' = o.text
         /\ pullCode' = o.code
    /\ gitLog' = Issue("pull")
    /\ \E removed \in {"absent", "empty", "nogit", "git"} : repoDir' = removed
    /\ updateResult' = CorruptedMsg
    /\ IF Contains(CorruptedMsg, "Repository corrupted (exit code 128)")
         THEN gitPc' = "clone" /\ ensureResult' = ensureResult
         ELSE gitPc' = "done" /\ ensureResult' = CorruptedMsg
    /\ UNCHANGED <<url, attempt>>
    /\ UNCHANGED nonGitVars

\* An iteration whose pull fails otherwise: repair and retry, or give up on
\* the last attempt.
PullFailed ==
    /\ gitPc = "pull"
    /\ \E o \in GitOutcomes(platform) :
         /\ ~IsCorruptionError(o.text)
         /\ pullErr' = o.text
         /\ pullCode' = o.code
    /\ gitLog' = Issue("pull")
    /\ IF attempt < max_attempts - 1
         THEN /\ gitPc' = "fix_fetch"
              /\ UNCHANGED <<updateResult, ensureResult>>
         ELSE /\ gitPc' = "done"
              /\ updateResult' = FailedUpdateMsg
              /\ ensureResult' = FailedUpdateMsg
    /\ UNCHANGED <<repoDir, url, attempt>>
    /\ UNCHANGED nonGitVars

\* fix_git_issues, first command: git fetch origin (result ignored).
FixFetch ==
    /\ gitPc = "fix_fetch"
    /\ gitLog' = Issue("fetch origin")
    /\ gitPc' = "fix_reset"
    /\ UNCHANGED <<repoDir, url, attempt, pullErr, pullCode, updateResult, ensureResult>>
    /\ UNCHANGED nonGitVars

\* fix_git_issues, second command: git reset --hard origin/main (result
\* ignored); fix_git_issues returns Ok and the loop continues.
FixReset ==
    /\ gitPc = "fix_reset"
    /\ gitLog' = Issue("reset --hard origin/main")
    /\ attempt' = attempt + 1
    /\ gitPc' = "pull"
    /\ UNCHANGED <<repoDir, url, pullErr, pullCode, updateResult, ensureResult>>
    /\ UNCHANGED nonGitVars

\* The clone part of clone_or_update_repository.  git clone can succeed
\* only into an absent or empty path.
Clone ==
    /\ gitPc = "clone"
    /\ gitPc' = "done"
    /\ IF ~url
         THEN /\ ensureResult' = MissingUrlMsg
              /\ UNCHANGED <<gitLog, repoDir>>
         ELSE /\ gitLog' = Issue("clone")
              /\ \/ /\ repoDir \in {"absent", "empty"}
                    /\ repoDir' = "git"
                    /\ ensureResult' = "Ok"
                 \/ /\ \E e \in GitErrors(platform) : ensureResult' = e
                    /\ UNCHANGED repoDir
    /\ UNCHANGED <<url, attempt, pullErr, pullCode, updateResult>>
    /\ UNCHANGED nonGitVars

GitNext == EnsureStart \/ PullOk \/ PullCorrupted \/ PullFailed \/ FixFetch \/ FixReset \/ Clone

(***************************************************************************)
(* Requirement manifest: parsing, classification, plan                     *)
(***************************************************************************)
MaxLines == 3

\* Requirement lines the manifests are built from.
SampleLines ==
    {"numpy==1.26.4", "Torch>=2.0", "torchvision", "onnxruntime-gpu==1.16.0",
     "triton==2.1.0", "insightface==0.7.3", "requests[socks,ssl]>=2",
     "numpy # pinned", "  ", "# comment", "-r base.txt",
     "--extra-index-url https://pypi.ngc.nvidia.com"}

VersionOperators == {"=", ">", "<", "!", "~"}

TorchNames == {"torch", "torchvision", "torchaudio", "torchtext", "torchdata"}

\* Requirement lines for the classification: names of every family in
\* mixed case, with versions, extras and comments, and names that only
\* resemble a family.
ClassifyLines ==
    {"torch", "TorchVision>=0.15", "torchaudio[extra]==2.1  # audio", "torchtext~=0.16",
     "torchdata", "torchmetrics==1.2", "pytorch-lightning", "OnnxRuntime-GPU==1.16.0",
     "onnxruntime", "onnx==1.15", "InsightFace==0.7.3", "insightface-extras",
     "triton", "Triton-Windows<3", "tritonclient[http]>=2", "numpy # torch", "requests[socks]",
     "# torch", "--index-url https://download.pytorch.org/whl/cu124", ""}

\* A parser that takes every name beginning with a torch name for torch.
parse_requirement_line_prefix(line_in) ==
    LET line == Trim(Split(line_in, "#")[1])
    IN IF \/ line = ""
          \/ StartsWith(line, "-")
          \/ Contains(line, "--index-url")
          \/ Contains(line, "--extra-index-url")
         THEN <<>>
         ELSE LET idx == Find(line, VersionOperators)
                  name_part == IF idx = 0 THEN line ELSE Trim(SubSeq(line, 1, idx - 1))
                  version == IF idx = 0 THEN <<>>
                             ELSE <<TrimMatches(SubSeq(line, idx, Len(line)), VersionOperators)>>
                  start == Find(name_part, {"["})
                  end == IF Find(name_part, {"]"}) = 0 THEN Len(name_part) + 1
                         ELSE Find(name_part, {"]"})
                  name == IF start = 0 THEN name_part ELSE SubSeq(name_part, 1, start - 1)
                  extras == IF start = 0 THEN <<>>
                            ELSE <<Split(SubSeq(name_part, start + 1, end - 1), ",")>>
                  lname == ToLower(name)
                  package_type ==
                      IF \E n \in TorchNames : StartsWith(lname, n) THEN "Torch"
                      ELSE IF StartsWith(lname, "onnxruntime") THEN "Onnxruntime"
                      ELSE IF StartsWith(lname, "insightface") THEN "Insightface"
                      ELSE IF StartsWith(lname, "triton") THEN "Triton"
                      ELSE "Regular"
              IN <<[name |-> lname, version |-> version, extras |-> extras,
                    package_type |-> package_type, original_line |-> line_in]>>
\* parse_requirement_line: Option<PackageInfo> as a sequence of length 0 or 1.
parse_requirement_line(line_in) ==
    LET line == Trim(Split(line_in, "#")[1])
    IN IF \/ line = ""
          \/ StartsWith(line, "-")
          \/ Contains(line, "--index-url")
          \/ Contains(line, "--extra-index-url")
         THEN <<>>
         ELSE LET idx == Find(line, VersionOperators)
                  name_part == IF idx = 0 THEN line ELSE Trim(SubSeq(line, 1, idx - 1))
                  version == IF idx = 0 THEN <<>>
                             ELSE <<TrimMatches(SubSeq(line, idx, Len(line)), VersionOperators)>>
                  start == Find(name_part, {"["})
                  end == IF Find(name_part, {"]"}) = 0 THEN Len(name_part) + 1
                         ELSE Find(name_part, {"]"})
                  name == IF start = 0 THEN name_part ELSE SubSeq(name_part, 1, start - 1)
                  extras == IF start = 0 THEN <<>>
                            ELSE <<Split(SubSeq(name_part, start + 1, end - 1), ",")>>
                  lname == ToLower(name)
                  package_type ==
                      IF lname \in TorchNames THEN "Torch"
                      ELSE IF StartsWith(lname, "onnxruntime") THEN "Onnxruntime"
                      ELSE IF StartsWith(lname, "insightface") THEN "Insightface"
                      ELSE IF StartsWith(lname, "triton") THEN "Triton"
                      ELSE "Regular"
              IN <<[name |-> lname, version |-> version, extras |-> extras,
                    package_type |-> package_type, original_line |-> line_in]>>

RECURSIVE analyze_requirements(_)
analyze_requirements(lines) ==
    IF lines = <<>> THEN <<>>
    ELSE parse_requirement_line(Head(lines)) \o analyze_requirements(Tail(lines))

OfType(packages, t) == SelectSeq(packages, LAMBDA p : p.package_type = t)

create_installation_plan_dup(packages) ==
    [regular_packages |-> SelectSeq(packages, LAMBDA p : p.package_type \in {"Regular", "Triton"}),
     onnx_packages |-> OfType(packages, "Onnxruntime"),
     torch_packages |-> OfType(packages, "Torch"),
     triton_packages |-> OfType(packages, "Triton"),
     insightface_packages |-> OfType(packages, "Insightface")]
create_installation_plan(packages) ==
    [regular_packages |-> OfType(packages, "Regular"),
     onnx_packages |-> OfType(packages, "Onnxruntime"),
     torch_packages |-> OfType(packages, "Torch"),
     triton_packages |-> OfType(packages, "Triton"),
     insightface_packages |-> OfType(packages, "Insightface")]

EmptyPlan == create_installation_plan(<<>>)

Manifests(lines, n) == UNION {[1..k -> lines] : k \in 0..n}

(***************************************************************************)
(* Dependency installation: the two executors of an installation plan      *)
(*   "requirements": RepositoryInstaller::install_requirements_with_uv_or_pip *)
(*   "pip_install":  PipManager::handle_pip_install_step                   *)
(***************************************************************************)
Paths == {"requirements", "pip_install"}

\* The requirement lines of the installation scenario, and one more triton
\* line so that the per-package loop has two turns.
ScenarioLines ==
    <<"numpy==1.26.4", "torch==2.1.0", "torchvision", "onnxruntime==1.16.0",
      "triton==2.1.0", "triton-windows", "insightface==0.7.3">>

ScenarioManifests ==
    {SelectSeq(ScenarioLines, LAMBDA l : l \in T) :
        T \in SUBSET {ScenarioLines[i] : i \in DOMAIN ScenarioLines}}

\* The order in which each executor goes through the buckets.
Order(path) ==
    IF path = "requirements"
      THEN <<"Regular", "Onnxruntime", "Torch", "Triton", "Insightface">>
      ELSE <<"Regular", "Torch", "Onnxruntime", "Insightface", "Triton">>

Bucket(pl, t) ==
    CASE t = "Regular" -> pl.regular_packages
      [] t = "Onnxruntime" -> pl.onnx_packages
      [] t = "Torch" -> pl.torch_packages
      [] t = "Triton" -> pl.triton_packages
      [] t = "Insightface" -> pl.insightface_packages

\* Whether the executor has a block for bucket t that runs: the bucket is
\* not empty, and the Triton and InsightFace blocks of the requirements
\* executor are compiled for Windows only.
Runs(path, pf, pl, t) ==
    /\ Bucket(pl, t) # <<>>
    /\ ~(path = "requirements" /\ pf # "windows" /\ t \in {"Triton", "Insightface"})

\* The position the executor reaches after the block at place i of its
\* order (0: from the start): the next block that runs, else the torch
\* check (requirements executor) or the return.
StageAfter(path, pf, pl, i) ==
    LET later == {j \in (i + 1)..5 : Runs(path, pf, pl, Order(path)[j])}
    IN IF later # {}
         THEN Order(path)[CHOOSE j \in later : \A k \in later : j <= k]
         ELSE IF path = "requirements" THEN "torch_check" ELSE "done"

Place(path, t) == CHOOSE j \in 1..5 : Order(path)[j] = t

Invocation(t, kind, tool, pkg, ok) ==
    [bucket |-> t, kind |-> kind, tool |-> tool, pkg |-> pkg, ok |-> ok]

Tool == IF uv_available THEN "uv" ELSE "pip"

\* The values get_default_torch_index_url gives the plan for the machine's
\* configuration.
TorchIndexUrls ==
    {"https://download.pytorch.org/whl/cpu", "https://download.pytorch.org/whl/cu124"}

\* PackageInfo::to_string.
to_string(p) == IF p.version # <<>> THEN p.name \o "==" \o p.version[1] ELSE p.name

\* A torch invocation with its --index-url and its package arguments.
TorchInvocation(kind, index, args, ok) ==
    [bucket |-> "Torch", kind |-> kind, tool |-> Tool, pkg |-> "*", ok |-> ok,
     index |-> index, args |-> args]

TorchArgs(pinned) ==
    [k \in DOMAIN plan.torch_packages |->
        IF pinned THEN to_string(plan.torch_packages[k]) ELSE plan.torch_packages[k].name]

InstIdle ==
    /\ manifest = <<>>
    /\ plan = EmptyPlan
    /\ instPath = "none"
    /\ instPc = "idle"
    /\ uv_available = FALSE
    /\ pkgIdx = 1
    /\ invocations = <<>>
    /\ instResult = "none"

InstInit(manifests, paths) ==
    /\ manifest \in manifests
    /\ plan = EmptyPlan
    /\ instPath \in paths
    /\ instPc = "analyze"
    /\ uv_available = FALSE
    /\ pkgIdx = 1
    /\ invocations = <<>>
    /\ instResult = "none"

\* The block at the current position went through: move on.
Advance ==
    LET nxt == StageAfter(instPath, platform, plan, Place(instPath, instPc))
    IN /\ instPc' = nxt
       /\ instResult' = IF nxt = "done" THEN "Ok" ELSE instResult
       /\ pkgIdx' = 1

\* An invocation failed and its error is propagated with `?`.
Abort ==
    /\ instPc' = "done"
    /\ instResult' = "Err"
    /\ pkgIdx' = 1

\* The head of both executors: parse the lines, build the plan, probe uv.
Analyze ==
    /\ instPc = "analyze"
    /\ LET buckets == create_installation_plan(analyze_requirements(manifest))
       IN \E index \in TorchIndexUrls : plan' = [torch_index_url |-> index] @@ buckets
    /\ uv_available' \in BOOLEAN
    /\ LET nxt == StageAfter(instPath, platform, plan', 0)
       IN /\ instPc' = nxt
          /\ instResult' = IF nxt = "done" THEN "Ok" ELSE instResult
    /\ UNCHANGED <<manifest, instPath, pkgIdx, invocations>>
    /\ UNCHANGED nonInstVars

\* Regular bucket.  The requirements executor first writes the lines to a
\* temporary file, which can fail before anything is invoked.
InstallRegular ==
    /\ instPc = "Regular"
    /\ \/ /\ instPath = "requirements"
          /\ Abort
          /\ UNCHANGED invocations
       \/ \E ok \in BOOLEAN :
            /\ invocations' = Append(invocations, Invocation("Regular", "install", Tool, "*", ok))
            /\ IF ok THEN Advance ELSE Abort
    /\ UNCHANGED <<manifest, plan, instPath, uv_available>>
    /\ UNCHANGED nonInstVars

\* Onnx bucket: one invocation, its failure propagated.
InstallOnnx ==
    /\ instPc = "Onnxruntime"
    /\ \E ok \in BOOLEAN :
         /\ invocations' = Append(invocations, Invocation("Onnxruntime", "install", Tool, "*", ok))
         /\ IF ok THEN Advance ELSE Abort
    /\ UNCHANGED <<manifest, plan, instPath, uv_available>>
    /\ UNCHANGED nonInstVars

\* Torch bucket: the requirements executor retries a failure without
\* version pins, the other executor propagates it.
InstallTorch ==
    /\ instPc = "Torch"
    /\ \E ok \in BOOLEAN :
         /\ invocations' = Append(invocations,
               TorchInvocation("install", plan.torch_index_url, TorchArgs(TRUE), ok))
         /\ IF ok THEN Advance
            ELSE IF instPath = "requirements"
                   THEN instPc' = "torch_retry" /\ UNCHANGED <<instResult, pkgIdx>>
                   ELSE Abort
    /\ UNCHANGED <<manifest, plan, instPath, uv_available>>
    /\ UNCHANGED nonInstVars

\* A retry that repeats the pinned arguments.
RetryTorch_pinned ==
    /\ instPc = "torch_retry"
    /\ \E ok \in BOOLEAN :
         /\ invocations' = Append(invocations,
               TorchInvocation("retry", plan.torch_index_url, TorchArgs(TRUE), ok))
         /\ IF ok
              THEN LET nxt == StageAfter(instPath, platform, plan, Place(instPath, "Torch"))
                   IN instPc' = nxt /\ UNCHANGED <<instResult, pkgIdx>>
              ELSE Abort
    /\ UNCHANGED <<manifest, plan, instPath, uv_available>>
    /\ UNCHANGED nonInstVars
\* The retry of a failed torch invocation: same tool, same index, the
\* package names without versions; its failure is propagated.
RetryTorch ==
    /\ instPc = "torch_retry"
    /\ \E ok \in BOOLEAN :
         /\ invocations' = Append(invocations,
               TorchInvocation("retry", plan.torch_index_url, TorchArgs(FALSE), ok))
         /\ IF ok
              THEN LET nxt == StageAfter(instPath, platform, plan, Place(instPath, "Torch"))
                   IN instPc' = nxt /\ UNCHANGED <<instResult, pkgIdx>>
              ELSE Abort
    /\ UNCHANGED <<manifest, plan, instPath, uv_available>>
    /\ UNCHANGED nonInstVars

\* Triton bucket: the requirements executor runs pip once per package,
\* the other executor issues one invocation of the platform's package.
InstallTriton ==
    /\ instPc = "Triton"
    /\ \E ok \in BOOLEAN :
         IF instPath = "requirements"
           THEN /\ invocations' = Append(invocations,
                      Invocation("Triton", "install", "pip", plan.triton_packages[pkgIdx].name, ok))
                /\ IF ~ok THEN Abort
                   ELSE IF pkgIdx < Len(plan.triton_packages)
                          THEN pkgIdx' = pkgIdx + 1 /\ UNCHANGED <<instPc, instResult>>
                          ELSE Advance
           ELSE /\ invocations' = Append(invocations,
                      Invocation("Triton", "install", Tool,
                                 IF platform = "windows" THEN "triton-windows" ELSE "triton", ok))
                /\ IF ok THEN Advance ELSE Abort
    /\ UNCHANGED <<manifest, plan, instPath, uv_available>>
    /\ UNCHANGED nonInstVars

InsightfaceWheel ==
    "https://huggingface.co/hanamizuki-ai/pypi-wheels/resolve/main/insightface/"
        \o "insightface-0.7.3-cp311-cp311-win_amd64.whl"

\* The packages handle_insightface_package installs: the prebuilt wheel on
\* Windows, the published package elsewhere, with the pinned numpy.
InsightfaceArgs(pf) ==
    (IF pf = "windows" THEN InsightfaceWheel ELSE "insightface") \o " numpy==1.26.4"

\* InsightFace bucket: handle_insightface_package probes uv again and
\* issues one invocation; the requirements executor calls it once per
\* package, the other executor once.
InstallInsightface ==
    /\ instPc = "Insightface"
    /\ \E ok \in BOOLEAN, uv \in BOOLEAN :
         /\ invocations' = Append(invocations,
               Invocation("Insightface", "install", IF uv THEN "uv" ELSE "pip",
                          InsightfaceArgs(platform), ok))
         /\ IF ~ok THEN Abort
            ELSE IF instPath = "requirements" /\ pkgIdx < Len(plan.insightface_packages)
                   THEN pkgIdx' = pkgIdx + 1 /\ UNCHANGED <<instPc, instResult>>
                   ELSE Advance
    /\ UNCHANGED <<manifest, plan, instPath, uv_available>>
    /\ UNCHANGED nonInstVars

\* The tail of the requirements executor: when `import torch` works, torch
\* is reinstalled from the CUDA index; a failure is only logged.
CheckTorch ==
    /\ instPc = "torch_check"
    /\ \/ UNCHANGED invocations
       \/ \E ok \in BOOLEAN :
            invocations' = Append(invocations, Invocation("Torch", "reinstall", Tool, "*", ok))
    /\ instPc' = "done"
    /\ instResult' = "Ok"
    /\ UNCHANGED <<manifest, plan, instPath, uv_available, pkgIdx>>
    /\ UNCHANGED nonInstVars

InstNext ==
    \/ Analyze \/ InstallRegular \/ InstallOnnx \/ InstallTorch \/ RetryTorch
    \/ InstallTriton \/ InstallInsightface \/ CheckTorch

(***************************************************************************)
(* Session: toolchain acquisition (install_portable_tool,                  *)
(* setup_environment_with_progress) and install requests                   *)
(***************************************************************************)
Tools == {"python", "git", "ffmpeg"}

Components == Tools \cup {"cuda"}

\* The order in which the handles are pushed and awaited.
HandleOrder == <<"cuda", "python", "git", "ffmpeg">>

NoAcq == [key |-> "none", again |-> FALSE, present |-> FALSE, did |-> {}, result |-> "none"]

\* This call of install_portable_tool follows a successful one for the same
\* component.
Again(key) == lastAcq.key = key /\ lastAcq.result = "Ok"

SessInitial(markers) ==
    /\ sessPc = "ready"
    /\ marker \in markers
    /\ sevenZip \in BOOLEAN
    /\ cuda_plan \in BOOLEAN
    /\ task = [c \in Components |-> "none"]
    /\ joinIdx = 1
    /\ lastAcq = NoAcq
    /\ presentAtSetup = {}
    /\ setupDid = {}
    /\ lastResult = "none"

SessIdle == SessInitial({[c \in Components |-> FALSE]}) /\ ~sevenZip /\ ~cuda_plan

InFlight == {c \in Components : task[c] \in {"download", "extract"}}

\* install_portable_tool(key) without its early return.
install_portable_tool_always(key) ==
    /\ sessPc = "ready"
    /\ InFlight = {}
    /\ \/ /\ lastAcq' = [key |-> key, again |-> Again(key), present |-> marker[key],
                         did |-> {"request", "write"}, result |-> "Err"]
          /\ UNCHANGED <<marker, sevenZip>>
       \/ /\ lastAcq' = [key |-> key, again |-> Again(key), present |-> marker[key],
                         did |-> {"request", "write", "extract"}, result |-> "Ok"]
          /\ marker' = [marker EXCEPT ![key] = TRUE]
          /\ sevenZip' = TRUE
    /\ lastResult' = lastAcq'.result
    /\ UNCHANGED <<sessPc, cuda_plan, task, joinIdx, presentAtSetup, setupDid>>
    /\ UNCHANGED nonSessVars
\* install_portable_tool(key): returns Ok at once when the marker
\* executable exists; otherwise downloads the archive, extracts it (which
\* first fetches 7z.exe when absent), removes the archive and checks the
\* marker.
install_portable_tool(key) ==
    /\ sessPc = "ready"
    /\ InFlight = {}
    /\ IF marker[key]
         THEN /\ lastAcq' = [key |-> key, again |-> Again(key), present |-> TRUE,
                              did |-> {}, result |-> "Ok"]
              /\ UNCHANGED <<marker, sevenZip>>
         ELSE \/ /\ lastAcq' = [key |-> key, again |-> Again(key), present |-> FALSE,
                                did |-> {"request", "write"}, result |-> "Err"]
                 /\ UNCHANGED <<marker, sevenZip>>
              \/ /\ \E found \in BOOLEAN :
                      /\ lastAcq' = [key |-> key, again |-> Again(key), present |-> FALSE,
                                     did |-> {"request", "write", "extract"},
                                     result |-> IF found THEN "Ok" ELSE "Err"]
                      /\ marker' = [marker EXCEPT ![key] = found]
                 /\ sevenZip' = TRUE
    /\ lastResult' = lastAcq'.result
    /\ UNCHANGED <<sessPc, cuda_plan, task, joinIdx, presentAtSetup, setupDid>>
    /\ UNCHANGED nonSessVars

\* setup_environment_with_progress up to the spawning of the tasks: one
\* task per missing tool, and one for CUDA when planned and missing.
SetupStart ==
    /\ sessPc = "ready"
    /\ InFlight = {}
    /\ sessPc' = "setup"
    /\ task' = [c \in Components |->
                  IF ~marker[c] /\ (c \in Tools \/ cuda_plan) THEN "download" ELSE "none"]
    /\ joinIdx' = 1
    /\ presentAtSetup' = {c \in Components : marker[c]}
    /\ setupDid' = {}
    /\ UNCHANGED <<marker, sevenZip, cuda_plan, lastAcq, lastResult>>
    /\ UNCHANGED nonSessVars

\* A task's download step.
TaskDownload(c) ==
    /\ task[c] = "download"
    /\ setupDid' = setupDid \cup {<<c, "request">>, <<c, "write">>}
    /\ \E ok \in BOOLEAN : task' = [task EXCEPT ![c] = IF ok THEN "extract" ELSE "err"]
    /\ UNCHANGED <<sessPc, marker, sevenZip, cuda_plan, joinIdx, lastAcq, presentAtSetup,
                   lastResult>>
    /\ UNCHANGED nonSessVars

\* A task's extraction step: 7z.exe is downloaded first when absent; the
\* task succeeds when the extraction does and the marker is there.
TaskExtract(c) ==
    /\ task[c] = "extract"
    /\ \/ /\ ~sevenZip
          /\ setupDid' = setupDid \cup {<<"7z", "request">>}
          /\ task' = [task EXCEPT ![c] = "err"]
          /\ UNCHANGED <<marker, sevenZip>>
       \/ /\ setupDid' = setupDid \cup {<<c, "extract">>, <<c, "write">>}
                           \cup (IF sevenZip THEN {} ELSE {<<"7z", "request">>})
          /\ sevenZip' = TRUE
          /\ \E found \in BOOLEAN :
               /\ marker' = [marker EXCEPT ![c] = found]
               /\ task' = [task EXCEPT ![c] = IF found THEN "ok" ELSE "err"]
    /\ UNCHANGED <<sessPc, cuda_plan, joinIdx, lastAcq, presentAtSetup, lastResult>>
    /\ UNCHANGED nonSessVars

\* One turn of the join loop: the awaited handle has finished; an Err is
\* returned at once.
SetupJoin ==
    /\ sessPc = "setup"
    /\ joinIdx <= Len(HandleOrder)
    /\ LET h == HandleOrder[joinIdx]
       IN /\ task[h] \in {"none", "ok", "err"}
          /\ IF task[h] = "err"
               THEN sessPc' = "ready" /\ lastResult' = "Err" /\ UNCHANGED joinIdx
               ELSE joinIdx' = joinIdx + 1 /\ UNCHANGED <<sessPc, lastResult>>
    /\ UNCHANGED <<marker, sevenZip, cuda_plan, task, lastAcq, presentAtSetup, setupDid>>
    /\ UNCHANGED nonSessVars

\* The tail of setup: verify_environment_tools, then the completion flag
\* is saved to the configuration file.
SetupFinish ==
    /\ sessPc = "setup"
    /\ joinIdx > Len(HandleOrder)
    /\ sessPc' = "ready"
    /\ \/ lastResult' = "Err" /\ UNCHANGED setupDid
       \/ /\ cuda_plan => marker["cuda"]
          /\ setupDid' = setupDid \cup {<<"config", "write">>}
          /\ lastResult' \in {"Ok", "Err"}
    /\ UNCHANGED <<marker, sevenZip, cuda_plan, task, joinIdx, lastAcq, presentAtSetup>>
    /\ UNCHANGED nonSessVars

\* main.rs install_repository: the installer is built and run, whatever
\* the state of the toolchain.
InstallRequest ==
    /\ sessPc = "ready"
    /\ InFlight = {}
    /\ sessPc' = "ensure"
    /\ UNCHANGED <<marker, sevenZip, cuda_plan, task, joinIdx, lastAcq, presentAtSetup,
                   setupDid, lastResult>>
    /\ UNCHANGED nonSessVars

\* install_from_url: clone_or_update_repository, then install_dependencies
\* begins by creating the environment (on Windows a copy of the portable
\* Python, which must exist; elsewhere python -m venv).
InstallEnsured ==
    /\ sessPc = "ensure"
    /\ \/ sessPc' = "ready" /\ lastResult' = "Err"
       \/ IF platform = "windows" /\ ~marker["python"]
            THEN sessPc' = "ready" /\ lastResult' = "Err"
            ELSE sessPc' = "deps" /\ UNCHANGED lastResult
    /\ UNCHANGED <<marker, sevenZip, cuda_plan, task, joinIdx, lastAcq, presentAtSetup,
                   setupDid>>
    /\ UNCHANGED nonSessVars

\* The dependency installation runs and the install request returns.
InstallDeps ==
    /\ sessPc = "deps"
    /\ sessPc' = "ready"
    /\ lastResult' \in {"Ok", "Err"}
    /\ UNCHANGED <<marker, sevenZip, cuda_plan, task, joinIdx, lastAcq, presentAtSetup,
                   setupDid>>
    /\ UNCHANGED nonSessVars

SessNext ==
    \/ \E key \in Tools : install_portable_tool(key)
    \/ SetupStart
    \/ \E c \in Components : TaskDownload(c) \/ TaskExtract(c)
    \/ SetupJoin
    \/ SetupFinish
    \/ InstallRequest
    \/ InstallEnsured
    \/ InstallDeps

(***************************************************************************)
(* Capability detection: detect_nvidia_gpu, get_best_gpu,                  *)
(* configure_gpu_from_detection                                            *)
(***************************************************************************)
ToUpper(s) == MapCase(s, LowerAlphabet, UpperAlphabet)

\* What nvidia-smi does: it cannot be spawned, it exits non-zero, or it
\* exits zero with these lines on stdout.
SmiOutcomes ==
    {[run |-> r, stdout |-> <<>>] : r \in {"missing", "failed"}}
    \cup {[run |-> "ok", stdout |-> out] : out \in
            { <<>>, <<"">>,
              <<"NVIDIA GeForce RTX 4090, 24564, 550.54">>,
              <<"NVIDIA GeForce GTX 1080,+8192,535.1">>,
              <<"Tesla T4, 15360, 535.1">>,
              <<"NVIDIA Graphics Device, [N/A], 550.54">>,
              <<"NVIDIA A100, 4294967296, 550.54">>,
              <<"No devices were found">> }}

\* What the platform's device listing answers: adapter names from WMI on
\* Windows, lspci lines elsewhere.
DeviceLists ==
    { <<>>,
      <<"Intel(R) UHD Graphics 630">>,
      <<"Intel(R) UHD Graphics 630", "NVIDIA GeForce RTX 3060">>,
      <<"AMD Radeon RX 6800">>,
      <<"Microsoft Basic Display Adapter">>,
      <<"00:02.0 \"VGA\" \"Intel\" \"UHD 630\"", "01:00.0 \"3D\" \"NVIDIA\" \"GA106\"">> }

\* The first line glxinfo prints for the renderer ("" when none).
Renderers == {"", "renderer string: llvmpipe", "renderer string: NVIDIA GeForce RTX 3060/PCIe"}

NoGpu == [name |-> "", gpu_type |-> "None", memory_mb |-> 0]

Pending == [status |-> "pending", error |-> "", gpu |-> NoGpu]

\* str::parse::<u32>: an optional '+', then one or more decimal digits, the
\* value at most 4294967295; -1 stands for the parse error.
parse_u32(s) ==
    LET body == IF StartsWith(s, "+") THEN Tail(s) ELSE s
        v[i \in 0..Len(body)] ==
            IF i = 0 THEN 0
            ELSE LET d == Find(Digits, {Char(body, i)})
                     prev == v[i - 1]
                 IN IF prev < 0 \/ d = 0 \/ prev > 429496729 \/ (prev = 429496729 /\ d - 1 > 5)
                      THEN -1
                      ELSE 10 * prev + (d - 1)
    IN IF body = "" THEN -1 ELSE v[Len(body)]

parse_nvidia_smi_output(line) ==
    LET raw == Split(line, ",")
        parts == [i \in 1..Len(raw) |-> Trim(raw[i])]
    IN IF Len(parts) >= 3
         THEN IF parse_u32(parts[2]) < 0
                THEN [status |-> "Err", error |-> "GPU detection error: Failed to parse GPU memory",
                      gpu |-> NoGpu]
                ELSE [status |-> "Some", error |-> "",
                      gpu |-> [name |-> parts[1], gpu_type |-> "Nvidia",
                               memory_mb |-> parse_u32(parts[2])]]
         ELSE [status |-> "Err", error |-> "GPU detection error: Invalid nvidia-smi output format",
               gpu |-> NoGpu]

determine_gpu_type(name) ==
    LET up == ToUpper(name)
    IN IF \E w \in {"NVIDIA", "GEFORCE", "QUADRO", "TESLA"} : Contains(up, w) THEN "Nvidia"
       ELSE IF Contains(up, "AMD") \/ Contains(up, "RADEON") THEN "Amd"
       ELSE IF Contains(up, "INTEL") THEN "Intel"
       ELSE "Unknown"

\* detect_gpu_wmi: every named adapter, typed by determine_gpu_type.
detect_gpu_wmi(names) ==
    [i \in 1..Len(names) |-> [name |-> names[i], gpu_type |-> determine_gpu_type(names[i]),
                              memory_mb |-> 0]]

\* detect_gpu_linux_lspci: the lines of a known vendor, named by the first
\* quoted field; detect_gpu_linux_glxinfo when there is none.
RECURSIVE detect_gpu_linux(_, _)
detect_gpu_linux(lines, renderer) ==
    IF lines = <<>>
      THEN IF renderer = "" THEN <<>>
           ELSE LET low == ToLower(renderer)
                IN <<[name |-> renderer,
                      gpu_type |-> IF Contains(low, "nvidia") THEN "Nvidia"
                                   ELSE IF Contains(low, "amd") \/ Contains(low, "radeon")
                                          THEN "Amd"
                                   ELSE IF Contains(low, "intel") THEN "Intel"
                                   ELSE "Unknown",
                      memory_mb |-> 0]>>
      ELSE LET l == lines[1]
               up == ToUpper(l)
               gpu_type == IF Contains(up, "NVIDIA") THEN "Nvidia"
                           ELSE IF Contains(up, "AMD") \/ Contains(up, "ATI")
                                   \/ Contains(up, "RADEON") THEN "Amd"
                           ELSE IF Contains(up, "INTEL") THEN "Intel"
                           ELSE "Unknown"
               start == Find(l, {"\""})
               rest == SubSeq(l, start + 1, Len(l))
               end == Find(rest, {"\""})
               name == IF start > 0 /\ end > 0 THEN SubSeq(rest, 1, end - 1) ELSE l
               others == detect_gpu_linux(Tail(lines), "")
               here == IF gpu_type = "Unknown" THEN <<>>
                       ELSE <<[name |-> name, gpu_type |-> gpu_type, memory_mb |-> 0]>>
           IN IF here \o others = <<>> /\ renderer # ""
                THEN detect_gpu_linux(<<>>, renderer)
                ELSE here \o others

gpu_patterns ==
    [Pascal |-> {"GTX 10", "GTX 1050", "GTX 1060", "GTX 1070", "GTX 1080", "TITAN X",
                 "TITAN XP"},
     Turing |-> {"GTX 16", "GTX 1650", "GTX 1660", "RTX 20", "RTX 2060", "RTX 2070",
                 "RTX 2080", "TITAN RTX"},
     Ampere |-> {"RTX 30", "RTX 3060", "RTX 3070", "RTX 3080", "RTX 3090", "RTX A", "A40",
                 "A100"},
     AdaLovelace |-> {"RTX 40", "RTX 4060", "RTX 4070", "RTX 4080", "RTX 4090", "RTX ADA",
                      "L40", "L4"},
     Blackwell |-> {"RTX 50", "RTX 5060", "RTX 5070", "RTX 5080", "RTX 5090"}]

\* The generations detect_gpu_generation can return for a name: the table
\* is a hash map, iterated in an unspecified order, and the first
\* generation with a matching pattern wins.
detect_gpu_generation(gpu_name) ==
    LET gpu_name_upper == ToUpper(gpu_name)
        hits == {g \in DOMAIN gpu_patterns :
                   \E pat \in gpu_patterns[g] : Contains(gpu_name_upper, pat)}
    IN IF hits = {} THEN {"Unknown"} ELSE hits

cuda_mapping ==
    [Pascal |-> "Cuda118", Turing |-> "Cuda124", Ampere |-> "Cuda124",
     AdaLovelace |-> "Cuda128", Blackwell |-> "Cuda128", Unknown |-> "None"]

\* A configuration that takes every Nvidia name for a CUDA device.
configure_gpu_any_nvidia(gpu_name, memory_gb, generation) ==
    LET up == ToUpper(gpu_name)
        backend ==
            IF \E w \in {"NVIDIA", "GEFORCE", "QUADRO", "TESLA", "RTX", "GTX"} : Contains(up, w)
              THEN "cuda"
            ELSE IF Contains(up, "AMD") \/ Contains(up, "RADEON") \/ Contains(up, "RX ")
              THEN "dml"
            ELSE IF \E w \in {"INTEL", "UHD", "IRIS", "ARC"} : Contains(up, w) THEN "openvino"
            ELSE "cpu"
    IN [name |-> gpu_name, generation |-> generation,
        cuda_version |-> cuda_mapping[generation], memory_gb |-> memory_gb,
        recommended_backend |-> backend, supports_tensorrt |-> FALSE]
configure_gpu(gpu_name, memory_gb, generation) ==
    LET up == ToUpper(gpu_name)
        cuda_version == cuda_mapping[generation]
        supports_trt == /\ cuda_version \in {"Cuda124", "Cuda128"}
                        /\ generation \in {"Turing", "Ampere", "AdaLovelace", "Blackwell"}
        backend ==
            IF \E w \in {"NVIDIA", "GEFORCE", "QUADRO", "TESLA", "RTX", "GTX"} : Contains(up, w)
              THEN IF generation # "Unknown" /\ cuda_version # "None"
                     THEN IF supports_trt THEN "cuda,tensorrt" ELSE "cuda"
                     ELSE "cpu"
            ELSE IF Contains(up, "AMD") \/ Contains(up, "RADEON") \/ Contains(up, "RX ")
              THEN "dml"
            ELSE IF \E w \in {"INTEL", "UHD", "IRIS", "ARC"} : Contains(up, w) THEN "openvino"
            ELSE "cpu"
    IN [name |-> gpu_name, generation |-> generation, cuda_version |-> cuda_version,
        memory_gb |-> memory_gb, recommended_backend |-> backend,
        supports_tensorrt |-> (backend = "cuda,tensorrt")]

NoConfig == [status |-> "pending", error |-> "", config |-> configure_gpu("", 0, "Unknown")]

GpuInit(outcomes) ==
    /\ gpuPc = "start"
    /\ probes \in outcomes
    /\ nvidia = Pending
    /\ best = Pending
    /\ gpu_config = NoConfig

GpuIdle == GpuInit({[smi |-> [run |-> "missing", stdout |-> <<>>], devices |-> <<>>,
                     renderer |-> ""]})

detect_nvidia_gpu ==
    /\ gpuPc = "start"
    /\ gpuPc' = "nvidia"
    /\ nvidia' = IF probes.smi.run = "ok" /\ probes.smi.stdout # <<>>
                   THEN parse_nvidia_smi_output(probes.smi.stdout[1])
                   ELSE [status |-> "None", error |-> "", gpu |-> NoGpu]
    /\ UNCHANGED <<probes, best, gpu_config>>
    /\ UNCHANGED nonGpuVars

\* get_best_gpu after its call of detect_nvidia_gpu: the error is passed
\* on, a device is returned, or the platform's listing is consulted, an
\* Nvidia device first.
get_best_gpu ==
    /\ gpuPc = "nvidia"
    /\ gpuPc' = "best"
    /\ best' = IF nvidia.status \in {"Err", "Some"} THEN nvidia
               ELSE LET gpus == IF platform = "windows" THEN detect_gpu_wmi(probes.devices)
                                ELSE detect_gpu_linux(probes.devices, probes.renderer)
                        nv == {i \in 1..Len(gpus) : gpus[i].gpu_type = "Nvidia"}
                    IN IF gpus = <<>> THEN [status |-> "None", error |-> "", gpu |-> NoGpu]
                       ELSE [status |-> "Some", error |-> "",
                             gpu |-> IF nv = {} THEN gpus[1]
                                     ELSE gpus[CHOOSE i \in nv : \A j \in nv : i <= j]]
    /\ UNCHANGED <<probes, nvidia, gpu_config>>
    /\ UNCHANGED nonGpuVars

configure_gpu_from_detection ==
    /\ gpuPc = "best"
    /\ gpuPc' = "done"
    /\ IF best.status = "Err"
         THEN gpu_config' = [status |-> "Err", error |-> best.error, config |-> NoConfig.config]
         ELSE LET gpu_name == IF best.status = "Some" THEN best.gpu.name ELSE "Unknown GPU"
                  memory_gb == IF best.status = "Some" THEN best.gpu.memory_mb \div 1024 ELSE 0
              IN \E generation \in detect_gpu_generation(gpu_name) :
                   gpu_config' = [status |-> "Ok", error |-> "",
                                  config |-> configure_gpu(gpu_name, memory_gb, generation)]
    /\ UNCHANGED <<probes, nvidia, best>>
    /\ UNCHANGED nonGpuVars

GpuNext ==
    \/ detect_nvidia_gpu
    \/ get_best_gpu
    \/ configure_gpu_from_detection

(***************************************************************************)
(* Progress reporting of the tasks that setup_environment_with_progress    *)
(* spawns: each task reads the shared counter and calls the progress       *)
(* callback before its download, before its extraction and at its end     *)
(***************************************************************************)
\* A task is inside the progress callback at these positions.
Emitting == {"emit1", "emit2", "emit3"}

ProgInit(spawned) ==
    /\ \E missing \in spawned :
         progPc = [c \in Components |-> IF c \in missing THEN "load1" ELSE "none"]
    /\ completed = 0
    /\ done_now = [c \in Components |-> 0]

ProgIdle == ProgInit({{}})

\* completed.load(SeqCst), then the callback is entered with that value.
TaskLoad(c) ==
    /\ progPc[c] \in {"load1", "load2", "load3"}
    /\ done_now' = [done_now EXCEPT ![c] = completed]
    /\ progPc' = [progPc EXCEPT ![c] = CASE progPc[c] = "load1" -> "emit1"
                                         [] progPc[c] = "load2" -> "emit2"
                                         [] progPc[c] = "load3" -> "emit3"]
    /\ UNCHANGED completed
    /\ UNCHANGED nonProgVars

\* The callback returns; the value read is not used again.
TaskEmitted(c) ==
    /\ progPc[c] \in Emitting
    /\ progPc' = [progPc EXCEPT ![c] = CASE progPc[c] = "emit1" -> "download"
                                         [] progPc[c] = "emit2" -> "extract"
                                         [] progPc[c] = "emit3" -> "ok"]
    /\ done_now' = [done_now EXCEPT ![c] = 0]
    /\ UNCHANGED completed
    /\ UNCHANGED nonProgVars

\* The download or the extraction of the task ends: on success the counter
\* is incremented (fetch_add), on failure the task returns its error.
TaskStep(c) ==
    /\ progPc[c] \in {"download", "extract"}
    /\ \/ /\ completed' = completed + 1
          /\ progPc' = [progPc EXCEPT ![c] = IF progPc[c] = "download" THEN "load2" ELSE "load3"]
       \/ /\ progPc' = [progPc EXCEPT ![c] = "err"]
          /\ UNCHANGED completed
    /\ UNCHANGED done_now
    /\ UNCHANGED nonProgVars

ProgNext == \E c \in Components : TaskLoad(c) \/ TaskEmitted(c) \/ TaskStep(c)

(***************************************************************************)
(* install_dependencies: the per-repository environment is rebuilt, then   *)
(* the server plan, pyproject.toml or a requirements file is installed     *)
(* (both install and update of a repository go through it)                 *)
(***************************************************************************)
\* The command (install-repo or update-repo), what the repository
\* lifecycle step meets (for an update "missing" is a repository that is
\* not installed, "failed" a pull that fails), and what the dependency
\* installation finds.
RepoInputs ==
    [op : {"install", "update"},
     lifecycle : {"ok", "failed", "missing"},
     env : {"absent", "old"},
     server : {"none", "ok", "error"},
     pyproject : {"none", "ok", "bad"},
     manifest : {"none", "readable", "unreadable"}]

EnvInit(inputs) ==
    /\ envPc = "lifecycle"
    /\ repoInput \in inputs
    /\ envDir = repoInput.env
    /\ envLog = <<>>
    /\ envResult = "none"
    /\ exitCode = -1

EnvIdle ==
    /\ envPc = "idle"
    /\ repoInput = [op |-> "install", lifecycle |-> "ok", env |-> "absent",
                    server |-> "none", pyproject |-> "none", manifest |-> "none"]
    /\ envDir = "absent"
    /\ envLog = <<>>
    /\ envResult = "none"
    /\ exitCode = -1

\* The lifecycle step of the command.  install_from_url and
\* install_from_name return the error of clone_or_update_repository, which
\* main turns into exit code 1; update_repository returns an error for a
\* repository that is not installed and only warns when fetch, reset or
\* pull fail.
Lifecycle ==
    /\ envPc = "lifecycle"
    /\ IF \/ repoInput.op = "install" /\ repoInput.lifecycle = "failed"
          \/ repoInput.op = "update" /\ repoInput.lifecycle = "missing"
         THEN envPc' = "exited" /\ exitCode' = 1
         ELSE envPc' = "venv" /\ UNCHANGED exitCode
    /\ UNCHANGED <<repoInput, envDir, envLog, envResult>>
    /\ UNCHANGED nonEnvVars

\* The end of the command and of main.  An install returns the error of
\* install_dependencies, then generates the start script and applies the
\* special setup, whose errors it returns too; an update drops the result
\* of install_dependencies and returns Ok.  main exits with 1 on an error.
CommandReturn ==
    /\ envPc = "done"
    /\ envPc' = "exited"
    /\ IF repoInput.op = "update"
         THEN exitCode' = 0 /\ UNCHANGED envLog
         ELSE IF envResult # "Ok"
                THEN exitCode' = 1 /\ UNCHANGED envLog
                ELSE \/ exitCode' = 0 /\ UNCHANGED envLog
                     \/ exitCode' = 1 /\ envLog' = envLog \o <<"script failed">>
    /\ UNCHANGED <<repoInput, envDir, envResult>>
    /\ UNCHANGED nonEnvVars

\* Package-manager events: the buckets of a manifest, the forced torch
\* reinstall, the steps of a server plan, the install of the repository
\* itself.
PmEvents == {"pm buckets", "pm torch reinstall", "pm server plan", "pm package"}

EnvFail(msg) == envPc' = "done" /\ envResult' = msg

\* create_venv_environment that builds over an existing directory.
create_venv_environment_keep ==
    /\ envPc = "venv"
    /\ envLog' = envLog \o <<"create_env">>
    /\ envPc' = "server"
    /\ UNCHANGED <<envDir, envResult>>
    /\ UNCHANGED <<repoInput, exitCode>>
    /\ UNCHANGED nonEnvVars
\* create_venv_environment: an existing envs/<name> is removed (a failure
\* is returned), then the portable Python is copied (Windows) or python -m
\* venv is run (elsewhere).
create_venv_environment ==
    /\ envPc = "venv"
    /\ \/ /\ envDir # "absent"
          /\ EnvFail("IO error")
          /\ UNCHANGED <<envDir, envLog>>
       \/ LET removed == IF envDir # "absent" THEN <<"remove_env">> ELSE <<>>
          IN \/ /\ EnvFail(IF platform = "windows"
                             THEN "Installation error: Portable Python not found"
                             ELSE "Environment error: python -m venv failed")
                /\ envDir' = "absent"
                /\ envLog' = envLog \o removed
             \/ /\ platform = "windows"
                /\ EnvFail("IO error")
                /\ envDir' = "fresh"
                /\ envLog' = envLog \o removed
             \/ /\ envDir' = "fresh"
                /\ envLog' = envLog \o removed \o <<"create_env">>
                /\ envPc' = "server"
                /\ UNCHANGED envResult
    /\ UNCHANGED <<repoInput, exitCode>>
    /\ UNCHANGED nonEnvVars

\* The server installation plan: none (every failure to fetch one counts as
\* none), a plan whose steps all succeed, or a plan with a failing step.
ServerPlan ==
    /\ envPc = "server"
    /\ CASE repoInput.server = "none" ->
              envPc' = "pyproject" /\ UNCHANGED <<envLog, envResult>>
         [] repoInput.server = "ok" ->
              /\ envLog' = envLog \o <<"pm server plan">>
              /\ envPc' = "done"
              /\ envResult' = "Ok"
         [] repoInput.server = "error" ->
              /\ envLog' = envLog \o <<"pm server plan">>
              /\ EnvFail("Command execution failed")
    /\ UNCHANGED <<repoInput, envDir, exitCode>>
    /\ UNCHANGED nonEnvVars

\* install_requirements_with_uv_or_pip seen from here: with packages it
\* installs buckets and can fail; it ends with the torch check, which may
\* reinstall torch.
RequirementsRun(hasPackages) ==
    {[events |-> b \o t, ok |-> ok] :
        b \in (IF hasPackages THEN {<<"pm buckets">>} ELSE {<<>>}),
        t \in {<<>>, <<"pm torch reinstall">>},
        ok \in (IF hasPackages THEN BOOLEAN ELSE {TRUE})}

Pyproject ==
    /\ envPc = "pyproject"
    /\ IF repoInput.pyproject = "ok"
         THEN \E r \in RequirementsRun(TRUE) :
                \/ /\ ~r.ok
                   /\ EnvFail("Command execution failed")
                   /\ envLog' = envLog \o <<"pm buckets">>
                \/ /\ r.ok
                   /\ envLog' = envLog \o r.events \o <<"pm package">>
                   /\ envPc' = "done"
                   /\ envResult' \in {"Ok", "Command execution failed"}
         ELSE envPc' = "requirements" /\ UNCHANGED <<envLog, envResult>>
    /\ UNCHANGED <<repoInput, envDir, exitCode>>
    /\ UNCHANGED nonEnvVars

\* The requirements file found by find_requirements_files is installed;
\* without one install_dependencies returns Ok.  A file that cannot be
\* read gives analyze_requirements no packages.
Requirements ==
    /\ envPc = "requirements"
    /\ envPc' = "done"
    /\ IF repoInput.manifest = "none"
         THEN envResult' = "Ok" /\ UNCHANGED envLog
         ELSE \E r \in RequirementsRun(repoInput.manifest = "readable") :
                /\ envLog' = envLog \o (IF r.ok THEN r.events ELSE <<"pm buckets">>)
                /\ envResult' = IF r.ok THEN "Ok" ELSE "Command execution failed"
    /\ UNCHANGED <<repoInput, envDir, exitCode>>
    /\ UNCHANGED nonEnvVars

EnvNext ==
    \/ Lifecycle \/ create_venv_environment \/ ServerPlan \/ Pyproject \/ Requirements
    \/ CommandReturn

(***************************************************************************)
(* Acquisition of one toolchain component (envs_manager.rs)                *)
(*                                                                         *)
(* install_portable_tool for a tool and the CUDA block of                  *)
(* setup_environment: download the archive, unpack it with 7z, remove the  *)
(* archive, look for the marker.                                           *)
(***************************************************************************)
\* An archive of an earlier, interrupted download may be on disk.
AcqInit ==
    /\ acqPc = "start"
    /\ component \in Components
    /\ archive \in {"none", "partial"}
    /\ markerPresent \in BOOLEAN
    /\ acqResult = "none"

AcqIdle ==
    /\ acqPc = "idle"
    /\ component = "git"
    /\ archive = "none"
    /\ markerPresent = FALSE
    /\ acqResult = "none"

AcqFail(msg) == acqPc' = "done" /\ acqResult' = msg

\* if exe_path.exists() { return Ok(()); } / if !self.is_cuda_installed()
AcqStart ==
    /\ acqPc = "start"
    /\ IF markerPresent
         THEN acqPc' = "done" /\ acqResult' = "Ok"
         ELSE acqPc' = "download" /\ UNCHANGED acqResult
    /\ UNCHANGED <<component, archive, markerPresent>>
    /\ UNCHANGED nonAcqVars

\* download_with_resume(...)?: an error leaves what was written on disk.
AcqDownload ==
    /\ acqPc = "download"
    /\ \/ archive' = "full" /\ acqPc' = "extract" /\ UNCHANGED acqResult
       \/ archive' \in {archive, "partial"} /\ AcqFail("Download failed")
    /\ UNCHANGED <<component, markerPresent>>
    /\ UNCHANGED nonAcqVars

\* The exit codes of 7z: 0 is success, 2 a fatal error.
UnpackExitCodes == {0, 2}

\* extract_7z(...)?: a non-zero exit of 7z is an error.  A tool is unpacked
\* in place, so that its executable may be there even after a failed run;
\* CUDA is unpacked to a temporary directory, the expected folder is looked
\* for and renamed to CUDA, which may or may not hold a bin directory.
AcqExtract ==
    /\ acqPc = "extract"
    /\ \E code \in UnpackExitCodes, produced \in BOOLEAN, folder \in BOOLEAN :
          IF code # 0
            THEN /\ AcqFail("7z.exe extraction failed")
                 /\ markerPresent' = (component \in Tools /\ produced)
            ELSE IF component = "cuda" /\ ~folder
                   THEN /\ AcqFail("Expected CUDA folder missing after extraction")
                        /\ markerPresent' = FALSE
                   ELSE /\ acqPc' = "cleanup"
                        /\ markerPresent' = produced
                        /\ UNCHANGED acqResult
    /\ UNCHANGED <<component, archive>>
    /\ UNCHANGED nonAcqVars

\* let _ = fs::remove_file(&archive_path): the result of the removal is
\* dropped, the archive stays when the removal fails.
AcqCleanup ==
    /\ acqPc = "cleanup"
    /\ archive' \in {"none", archive}
    /\ acqPc' = "verify"
    /\ UNCHANGED <<component, markerPresent, acqResult>>
    /\ UNCHANGED nonAcqVars

\* install_portable_tool looks for the executable; the CUDA block counts
\* the step as completed and prints "CUDA extracted." without a look at
\* CUDA/bin.
AcqVerify ==
    /\ acqPc = "verify"
    /\ acqPc' = "done"
    /\ acqResult' = IF component \in Tools /\ ~markerPresent
                      THEN "installation failed: executable not found"
                      ELSE "Ok"
    /\ UNCHANGED <<component, archive, markerPresent>>
    /\ UNCHANGED nonAcqVars

AcqNext == AcqStart \/ AcqDownload \/ AcqExtract \/ AcqCleanup \/ AcqVerify

(***************************************************************************)
(* Plan choices (config.rs, repository_installer.rs)                       *)
(*                                                                         *)
(* configure_gpu builds the profile of the device once; every repository   *)
(* installation then chooses the torch index, the onnxruntime package and  *)
(* the onnxruntime nightly flag from it.                                   *)
(***************************************************************************)
DeviceNames ==
    UNION {gpu_patterns[g] : g \in DOMAIN gpu_patterns}
      \cup {"NVIDIA GeForce RTX 4090", "NVIDIA GeForce GTX 1080", "Tesla T4",
            "AMD Radeon RX 6800", "Intel(R) UHD Graphics 630", "Unknown GPU"}

\* What "nvcc --version" reports as the release ("" when nvcc is missing).
NvccReleases == {"", "12.8", "12.6", "12.4", "12.1", "12.0", "11.8"}

detect_cuda_version_from_system(ver) ==
    IF StartsWith(ver, "12.8") THEN "Cuda128"
    ELSE IF StartsWith(ver, "12.6") THEN "Cuda126"
    ELSE IF StartsWith(ver, "12.4") THEN "Cuda124"
    ELSE IF StartsWith(ver, "12.1") THEN "Cuda121"
    ELSE IF StartsWith(ver, "11.8") THEN "Cuda118"
    ELSE "None"

\* The accessors of the configuration manager over the stored profile.
has_cuda(p) == p.cuda_version # "None"

get_gpu_name(p) == p.name

detect_current_gpu_generation(p) == p.generation

get_cuda_version(p) == p.cuda_version

NightlyIndex == "https://download.pytorch.org/whl/nightly/cu128"

IsBlackwell(p) ==
    \/ Contains(ToUpper(get_gpu_name(p)), "RTX 50")
    \/ Contains(ToLower(detect_current_gpu_generation(p)), "blackwell")

IsNvidiaName(p) ==
    \E w \in {"NVIDIA", "RTX", "GEFORCE"} : Contains(ToUpper(get_gpu_name(p)), w)

get_default_torch_index_url(p, plat, ver) ==
    LET cv == detect_cuda_version_from_system(ver)
    IN IF has_cuda(p) /\ IsBlackwell(p) THEN NightlyIndex
       ELSE IF plat = "unix" /\ cv # "None"
         THEN IF cv = "Cuda128" THEN NightlyIndex
              ELSE IF cv = "Cuda126" THEN "https://download.pytorch.org/whl/cu126"
              ELSE IF cv = "Cuda124" THEN "https://download.pytorch.org/whl/cu124"
              ELSE IF cv = "Cuda121" THEN "https://download.pytorch.org/whl/cu121"
              ELSE "https://download.pytorch.org/whl/cu118"
       ELSE IF plat = "windows" /\ has_cuda(p) /\ get_cuda_version(p) # "None"
         THEN IF get_cuda_version(p) = "Cuda128" THEN NightlyIndex
              ELSE IF get_cuda_version(p) = "Cuda124"
                THEN "https://download.pytorch.org/whl/cu124"
              ELSE "https://download.pytorch.org/whl/cu118"
       ELSE "https://download.pytorch.org/whl/cpu"

needs_onnx_nightly(p, plat, ver) ==
    \/ has_cuda(p) /\ IsNvidiaName(p) /\ IsBlackwell(p)
    \/ plat = "unix" /\ detect_cuda_version_from_system(ver) = "Cuda128"

get_onnx_package_spec(p, plat) ==
    LET name_up == ToUpper(get_gpu_name(p))
    IN IF has_cuda(p) /\ IsNvidiaName(p) /\ IsBlackwell(p) THEN "onnxruntime-gpu>=1.20"
       ELSE IF has_cuda(p) /\ IsNvidiaName(p) THEN "onnxruntime-gpu"
       ELSE IF /\ has_cuda(p)
               /\ Contains(name_up, "AMD") \/ Contains(name_up, "INTEL")
               /\ plat = "windows"
         THEN "onnxruntime-directml"
       ELSE "onnxruntime"

\* The ONNX block of install_requirements_with_uv_or_pip: the package of
\* get_onnx_package_spec, as it is when it carries a ">=" constraint, and
\* otherwise with "==" and the version of the first package named
\* onnxruntime that has one.
onnx_install_spec(p, plat, onnx_packages) ==
    LET forced_spec == get_onnx_package_spec(p, plat)
        pinned == SelectSeq(onnx_packages,
                            LAMBDA pkg : pkg.name = "onnxruntime" /\ pkg.version # <<>>)
    IN IF Contains(forced_spec, ">=") THEN forced_spec
       ELSE IF pinned # <<>> THEN forced_spec \o "==" \o pinned[1].version[1]
       ELSE forced_spec

OnnxLines == {"onnxruntime==1.16.0", "onnxruntime", "onnxruntime-gpu==1.16.0"}

MaxRuns == 2

ChoiceInit ==
    /\ choicePc = "configure"
    /\ deviceName \in DeviceNames
    /\ profile = configure_gpu("", 0, "Unknown")
    /\ planRuns = <<>>
    /\ onnxLine \in OnnxLines

ChoiceIdle ==
    /\ choicePc = "idle"
    /\ deviceName = ""
    /\ profile = configure_gpu("", 0, "Unknown")
    /\ planRuns = <<>>
    /\ onnxLine = ""

\* configure_gpu: the generation is the one detect_gpu_generation returns.
ConfigureGpu ==
    /\ choicePc = "configure"
    /\ \E generation \in detect_gpu_generation(deviceName) :
          profile' = configure_gpu(deviceName, 0, generation)
    /\ choicePc' = "plan"
    /\ UNCHANGED <<deviceName, planRuns, onnxLine>>
    /\ UNCHANGED nonChoiceVars

\* One repository installation: the choices made from the profile and, on
\* Unix, from the CUDA toolkit found on the host at that time.
PlanRun ==
    /\ choicePc = "plan"
    /\ Len(planRuns) < MaxRuns
    /\ \E ver \in (IF platform = "unix" THEN NvccReleases ELSE {""}) :
          planRuns' = Append(planRuns,
              [nvcc |-> ver,
               torch_index_url |-> get_default_torch_index_url(profile, platform, ver),
               onnx_spec |-> get_onnx_package_spec(profile, platform),
               onnx_nightly |-> needs_onnx_nightly(profile, platform, ver),
               onnx_installed |->
                   onnx_install_spec(profile, platform,
                       OfType(analyze_requirements(<<onnxLine>>), "Onnxruntime"))])
    /\ UNCHANGED <<choicePc, deviceName, profile, onnxLine>>
    /\ UNCHANGED nonChoiceVars

ChoiceNext == ConfigureGpu \/ PlanRun

(***************************************************************************)
(* Hydration of the configuration (config.rs)                              *)
(*                                                                         *)
(* hydrate_from_existing_env runs at the start of every command and again  *)
(* from the system information screen.  The stored configuration without   *)
(* a GPU entry reads as GpuConfig::default().                              *)
(***************************************************************************)
\* What "nvidia-smi --query-gpu=cuda_version" prints ("" when it fails).
SmiCudaReports == {"", "12.8", "12.4", "12.2", "11.8"}

detect_cuda_version_from_nvidia_smi(stdout) ==
    IF StartsWith(stdout, "12.8") THEN "Cuda128"
    ELSE IF StartsWith(stdout, "12.4") THEN "Cuda124"
    ELSE IF StartsWith(stdout, "11.8") THEN "Cuda118"
    ELSE "None"

\* memory_mb / 1024 of the detected device; 0 when the probe reports none.
MemoriesGb == {0, 8}

needs_gpu_fill(p) == p.name = "" \/ p.name = "Unknown GPU" \/ p.memory_gb = 0

hydrate_from_existing_env ==
    /\ choicePc \in {"configure", "plan"}
    /\ planRuns = <<>>
    /\ \E ps_env \in BOOLEAN, memory_gb \in MemoriesGb, stdout \in SmiCudaReports :
       \E generation \in detect_gpu_generation(deviceName) :
          IF ~ps_env
            THEN UNCHANGED <<choicePc, profile>>
            ELSE LET filled == IF needs_gpu_fill(profile)
                                 THEN configure_gpu(deviceName, memory_gb, generation)
                                 ELSE profile
                     cuda_ver == detect_cuda_version_from_nvidia_smi(stdout)
                 IN /\ profile' = IF cuda_ver # "None"
                                    THEN [filled EXCEPT !.cuda_version = cuda_ver]
                                    ELSE filled
                    /\ choicePc' = "plan"
    /\ UNCHANGED <<deviceName, planRuns, onnxLine>>
    /\ UNCHANGED nonChoiceVars

HydrateInit ==
    /\ choicePc = "configure"
    /\ deviceName \in DeviceNames
    /\ profile = configure_gpu("", 0, "Unknown")
    /\ planRuns = <<>>
    /\ onnxLine = "onnxruntime"

HydrateNext == ConfigureGpu \/ hydrate_from_existing_env

(***************************************************************************)
(* format_file_size (utils.rs)                                             *)
(*                                                                         *)
(* A size is written in base 1024, most significant digit first (<<>> is   *)
(* 0), so that sizes up to the range of u64 fit the checker's integers.    *)
(* The divisions by 1024.0 are exact in f64.                               *)
(***************************************************************************)
UNITS == <<"B", "KB", "MB", "GB", "TB">>

RECURSIVE Value(_)
Value(digits) ==
    IF digits = <<>> THEN 0
    ELSE Value(SubSeq(digits, 1, Len(digits) - 1)) * 1024 + digits[Len(digits)]

\* A loop that stops one unit early.
RECURSIVE Scale_short(_, _, _)
Scale_short(whole, frac, unit_index) ==
    IF Len(whole) >= 2 /\ unit_index < Len(UNITS) - 2
      THEN Scale_short(SubSeq(whole, 1, Len(whole) - 1),
                       <<whole[Len(whole)]>> \o frac, unit_index + 1)
      ELSE [whole |-> whole, frac |-> frac, unit_index |-> unit_index]
\* while size >= 1024.0 && unit_index < UNITS.len() - 1: one division by
\* 1024 moves the last digit of the whole part to the fraction.
RECURSIVE Scale(_, _, _)
Scale(whole, frac, unit_index) ==
    IF Len(whole) >= 2 /\ unit_index < Len(UNITS) - 1
      THEN Scale(SubSeq(whole, 1, Len(whole) - 1),
                 <<whole[Len(whole)]>> \o frac, unit_index + 1)
      ELSE [whole |-> whole, frac |-> frac, unit_index |-> unit_index]

\* The integer part of m times the fraction 0.frac, and whether the
\* product is an integer.
RECURSIVE ScaledFloor(_, _)
ScaledFloor(m, frac) ==
    IF frac = <<>> THEN 0
    ELSE (m * Head(frac) + ScaledFloor(m, Tail(frac))) \div 1024

RECURSIVE ScaledExact(_, _)
ScaledExact(m, frac) ==
    \/ frac = <<>>
    \/ /\ ScaledExact(m, Tail(frac))
       /\ (m * Head(frac) + ScaledFloor(m, Tail(frac))) % 1024 = 0

\* format!("{:.1}", size): one decimal, rounded to nearest, ties to even.
OneDecimal(whole, frac) ==
    LET twice == ScaledFloor(20, frac)
        n == twice \div 2
        up == twice % 2 = 1 /\ (~ScaledExact(20, frac) \/ n % 2 = 1)
        tenths == IF up THEN n + 1 ELSE n
    IN IF tenths = 10 THEN Dec(whole + 1) \o ".0"
       ELSE Dec(whole) \o "." \o Dec(tenths)

format_file_size(bytes_in) ==
    IF bytes_in = <<>> THEN "0 B"
    ELSE LET s == Scale(bytes_in, <<>>, 0)
         IN IF s.unit_index = 0
              THEN Dec(Value(bytes_in)) \o " " \o UNITS[s.unit_index + 1]
              ELSE OneDecimal(Value(s.whole), s.frac) \o " " \o UNITS[s.unit_index + 1]

SizeDigits == {0, 1, 512, 1023}

MaxDigits == 6

\* The sizes of at most MaxDigits digits within the range of u64.
FileSizes ==
    {s \in UNION {[1..n -> SizeDigits] : n \in 0..MaxDigits} :
        s # <<>> => (s[1] # 0 /\ (Len(s) >= 7 => (Len(s) = 7 /\ s[1] < 16)))}

FmtInit ==
    /\ fmtPc = "input"
    /\ size_bytes \in FileSizes
    /\ formatted = ""

FmtIdle ==
    /\ fmtPc = "idle"
    /\ size_bytes = <<>>
    /\ formatted = ""

FormatFileSize ==
    /\ fmtPc = "input"
    /\ formatted' = format_file_size(size_bytes)
    /\ fmtPc' = "done"
    /\ UNCHANGED size_bytes
    /\ UNCHANGED nonFmtVars

(***************************************************************************)
(* The shared unpack utility (envs_manager.rs)                             *)
(*                                                                         *)
(* Every task of setup_environment_with_progress ends in                   *)
(* extract_with_7z_binary_static, which looks for ps_env/7z.exe, downloads *)
(* it with download_with_resume_static when it is missing, and runs it.    *)
(* The tasks run on the blocking thread pool and share no lock.            *)
(***************************************************************************)
\* The length of 7z.exe, in chunks of the download loop.
SevenZipChunks == 2

SzInit ==
    /\ szPc = [t \in Tools |-> "check"]
    /\ szFile \in {[exists |-> FALSE, len |-> 0], [exists |-> TRUE, len |-> SevenZipChunks]}
    /\ szPos = [t \in Tools |-> 0]
    /\ szDownloaded = {}
    /\ szRaces = {}

SzIdle ==
    /\ szPc = [t \in Tools |-> "idle"]
    /\ szFile = [exists |-> FALSE, len |-> 0]
    /\ szPos = [t \in Tools |-> 0]
    /\ szDownloaded = {}
    /\ szRaces = {}

\* The tasks other than t that hold 7z.exe open for writing.
OtherWriters(t) == {u \in Tools \ {t} : szPc[u] = "write"}

\* if !seven_zip_path.exists() { download ... }
SzCheck(t) ==
    /\ szPc[t] = "check"
    /\ szPc' = [szPc EXCEPT ![t] = IF szFile.exists THEN "spawn" ELSE "request"]
    /\ UNCHANGED <<szFile, szPos, szDownloaded, szRaces>>
    /\ UNCHANGED nonSzVars

\* download_with_resume_static up to the opening of the file: the length
\* of what is there decides between a plain and a Range request; on
\* success the file is created, or opened at its end when existing_len > 0.
SzRequest(t) ==
    /\ szPc[t] = "request"
    /\ LET have_len == IF szFile.exists THEN szFile.len ELSE 0
       IN \/ /\ szPc' = [szPc EXCEPT ![t] = "failed"]
             /\ UNCHANGED <<szFile, szPos, szDownloaded, szRaces>>
          \/ /\ have_len < SevenZipChunks
             /\ szDownloaded' = szDownloaded \cup {t}
             /\ szPc' = [szPc EXCEPT ![t] = "write"]
             /\ szFile' = [szFile EXCEPT !.exists = TRUE]
             /\ szPos' = [szPos EXCEPT ![t] = have_len]
             /\ szRaces' = IF have_len > 0 /\ OtherWriters(t) # {}
                             THEN szRaces \cup {<<t, "resume">>}
                             ELSE szRaces
    /\ UNCHANGED nonSzVars

\* One turn of the read/write loop, and its end when the body is through.
SzWrite(t) ==
    /\ szPc[t] = "write"
    /\ IF szPos[t] < SevenZipChunks
         THEN /\ szPos' = [szPos EXCEPT ![t] = szPos[t] + 1]
              /\ szFile' = [szFile EXCEPT
                               !.len = IF szPos[t] + 1 > szFile.len THEN szPos[t] + 1
                                       ELSE szFile.len]
              /\ UNCHANGED szPc
         ELSE /\ szPc' = [szPc EXCEPT ![t] = "spawn"]
              /\ UNCHANGED <<szFile, szPos>>
    /\ UNCHANGED <<szDownloaded, szRaces>>
    /\ UNCHANGED nonSzVars

\* Command::new(&seven_zip_path)...spawn(): the file is executed as it is.
SzSpawn(t) ==
    /\ szPc[t] = "spawn"
    /\ szPc' = [szPc EXCEPT ![t] = "done"]
    /\ szRaces' = IF OtherWriters(t) # {} THEN szRaces \cup {<<t, "execute">>} ELSE szRaces
    /\ UNCHANGED <<szFile, szPos, szDownloaded>>
    /\ UNCHANGED nonSzVars

SzNext == \E t \in Tools : SzCheck(t) \/ SzRequest(t) \/ SzWrite(t) \/ SzSpawn(t)

(***************************************************************************)
(* Installed repositories: install_from_url, install_from_name,            *)
(* install_dependencies and delete_repository (repository_installer.rs)    *)
(***************************************************************************)
\* Two names denote the same directory entry: Windows volumes compare names
\* without regard to case, Linux volumes compare them as they are written.
SamePath(a, b) == IF platform = "windows" THEN ToLower(a) = ToLower(b) ELSE a = b

\* Path::exists for dirs/<name>.
DirExists(dirs, name) == \E d \in dirs : SamePath(d, name)

\* create_dir_all and remove_dir_all for dirs/<name>.
CreateDir(dirs, name) == IF DirExists(dirs, name) THEN dirs ELSE dirs \cup {name}

RemoveDir(dirs, name) == {d \in dirs : ~SamePath(d, name)}

\* The last path segment of the URL, without a trailing ".git"; "" stands
\* for the error of an empty segment.
extract_repo_name_from_url(u) ==
    LET slashes == {i \in 1..Len(u) : Char(u, i) = "/"}
        last == CHOOSE i \in slashes : \A j \in slashes : j <= i
        name == SubSeq(u, last + 1, Len(u))
        n == Len(name)
    IN IF n >= 4 /\ SubSeq(name, n - 3, n) = ".git" THEN SubSeq(name, 1, n - 4) ELSE name

\* install_from_name: a non-empty input is the name, in lower case.
normalize_repo_name(input) == ToLower(input)

RepoUrls ==
    {"https://github.com/comfyanonymous/ComfyUI",
     "https://github.com/facefusion/facefusion.git",
     "https://github.com/facefusion/"}

RepoNameInputs == {"ComfyUI", "facefusion"}

InstallOutcomes == {"clone_failed", "venv_failed", "deps_failed", "ok"}

StoreInit ==
    /\ storePc = "ready"
    /\ repos = {}
    /\ envs = {}
    /\ installedAs = {}
    /\ lastDelete = [name |-> "", envs |-> {}]

StoreIdle ==
    /\ storePc = "idle"
    /\ repos = {}
    /\ envs = {}
    /\ installedAs = {}
    /\ lastDelete = [name |-> "", envs |-> {}]

\* Clone into repos/<repo_name>, then install_dependencies: the environment
\* is envs/<lower-case file name of the working tree>, removed and made anew.
InstallAt(repo_name, outcome) ==
    LET env_name == ToLower(repo_name)
    IN IF outcome = "clone_failed"
       THEN /\ storePc' = "failed"
            /\ UNCHANGED <<repos, envs, installedAs>>
       ELSE /\ repos' = CreateDir(repos, repo_name)
            /\ envs' = IF outcome = "venv_failed"
                       THEN RemoveDir(envs, env_name)
                       ELSE CreateDir(RemoveDir(envs, env_name), env_name)
            /\ storePc' = IF outcome = "ok" THEN "installed" ELSE "failed"
            /\ installedAs' =
                   LET listed == CHOOSE d \in repos' : SamePath(d, repo_name)
                       others == {r \in installedAs : r.name # listed}
                   IN IF outcome = "ok"
                      THEN others \cup {[name |-> listed, env |-> env_name]}
                      ELSE others

install_from_url ==
    /\ storePc \notin {"idle"}
    /\ \E u \in RepoUrls, outcome \in InstallOutcomes :
           LET repo_name == extract_repo_name_from_url(u)
           IN IF repo_name = ""
              THEN /\ storePc' = "failed"
                   /\ UNCHANGED <<repos, envs, installedAs>>
              ELSE InstallAt(repo_name, outcome)
    /\ UNCHANGED lastDelete
    /\ UNCHANGED nonStoreVars

install_from_name ==
    /\ storePc \notin {"idle"}
    /\ \E input \in RepoNameInputs, outcome \in InstallOutcomes :
           InstallAt(normalize_repo_name(input), outcome)
    /\ UNCHANGED lastDelete
    /\ UNCHANGED nonStoreVars

\* delete_repository with a name of the listing (the directory names of
\* repos/): removes repos/<name> and envs/<name> where they exist.
delete_repository ==
    /\ storePc \notin {"idle"}
    /\ \E repo_name \in repos :
           /\ repos' = RemoveDir(repos, repo_name)
           /\ envs' = RemoveDir(envs, repo_name)
           /\ lastDelete' = [name |-> repo_name,
                             envs |-> {r.env : r \in {x \in installedAs : x.name = repo_name}}]
           /\ installedAs' = {r \in installedAs : r.name # repo_name}
    /\ storePc' = "deleted"
    /\ UNCHANGED nonStoreVars

StoreNext == install_from_url \/ install_from_name \/ delete_repository

(***************************************************************************)
(* apply_onnx_gpu_detection (repository_installer.rs)                      *)
(***************************************************************************)
\* str::replace: every non-overlapping occurrence of from, left to right.
RECURSIVE Replace(_, _, _)
Replace(s, from, to) ==
    IF Len(s) < Len(from)
    THEN s
    ELSE IF StartsWith(s, from)
         THEN to \o Replace(SubSeq(s, Len(from) + 1, Len(s)), from, to)
         ELSE Char(s, 1) \o Replace(SubSeq(s, 2, Len(s)), from, to)

apply_onnx_gpu_detection(p, plat, base) ==
    LET up == ToUpper(get_gpu_name(p))
    IN IF StartsWith(base, "onnxruntime") /\ Contains(up, "NVIDIA")
       THEN Replace(base, "onnxruntime", "onnxruntime-gpu")
       ELSE IF /\ StartsWith(base, "onnxruntime")
               /\ (Contains(up, "AMD") \/ Contains(up, "INTEL"))
               /\ plat = "windows"
            THEN Replace(base, "onnxruntime", "onnxruntime-directml")
            ELSE base

\* The package specs of an "onnxruntime" or "pip_install" step of a server plan.
StepPackages ==
    {"onnxruntime", "onnxruntime==1.16.0", "onnxruntime>=1.17",
     "onnxruntime-gpu", "onnxruntime-gpu==1.16.0",
     "onnxruntime-directml", "onnxruntime-directml>=1.17",
     "onnx==1.15.0", "numpy==1.26.4"}

StepDevices ==
    {"NVIDIA GeForce RTX 4090", "Tesla T4", "AMD Radeon RX 6800",
     "Intel(R) UHD Graphics 630", "Unknown GPU"}

SubInit ==
    /\ subPc = "input"
    /\ subName \in StepDevices
    /\ subBase \in StepPackages
    /\ subOnce = ""
    /\ subTwice = ""

SubIdle ==
    /\ subPc = "idle"
    /\ subName = ""
    /\ subBase = ""
    /\ subOnce = ""
    /\ subTwice = ""

\* process_server_step maps a package of the step.
MapPackage ==
    /\ subPc = "input"
    /\ subOnce' = apply_onnx_gpu_detection([name |-> subName], platform, subBase)
    /\ subPc' = "once"
    /\ UNCHANGED <<subName, subBase, subTwice>>
    /\ UNCHANGED nonSubVars

\* The mapped spec is given to the substitution again.
MapAgain ==
    /\ subPc = "once"
    /\ subTwice' = apply_onnx_gpu_detection([name |-> subName], platform, subOnce)
    /\ subPc' = "twice"
    /\ UNCHANGED <<subName, subBase, subOnce>>
    /\ UNCHANGED nonSubVars

SubNext == MapPackage \/ MapAgain

(***************************************************************************)
(* Specifications: one per subsystem, the others idle                      *)
(***************************************************************************)
SpecGitInit ==
    /\ platform \in Platforms
    /\ GitInit /\ DlIdle /\ InstIdle /\ SessIdle /\ GpuIdle /\ ProgIdle /\ EnvIdle
    /\ AcqIdle /\ ChoiceIdle /\ FmtIdle /\ SzIdle
    /\ StoreIdle
    /\ SubIdle

SpecGit == SpecGitInit /\ [][GitNext]_vars

SpecDownloadInit ==
    /\ platform = "windows"
    /\ GitIdle /\ DlInit /\ InstIdle /\ SessIdle /\ GpuIdle /\ ProgIdle /\ EnvIdle
    /\ AcqIdle /\ ChoiceIdle /\ FmtIdle /\ SzIdle
    /\ StoreIdle
    /\ SubIdle

SpecDownload == SpecDownloadInit /\ [][DlNext]_vars

SpecPlanInit ==
    /\ platform \in Platforms
    /\ GitIdle
    /\ DlIdle
    /\ InstInit(Manifests(SampleLines, MaxLines), {"requirements"})
    /\ SessIdle /\ GpuIdle /\ ProgIdle /\ EnvIdle /\ AcqIdle /\ ChoiceIdle /\ FmtIdle /\ SzIdle
    /\ StoreIdle
    /\ SubIdle

SpecPlan == SpecPlanInit /\ [][Analyze]_vars

\* Classification of single requirement lines.
SpecClassifyInit ==
    /\ platform \in Platforms
    /\ GitIdle
    /\ DlIdle
    /\ InstInit(Manifests(ClassifyLines, 1), {"requirements"})
    /\ SessIdle /\ GpuIdle /\ ProgIdle /\ EnvIdle /\ AcqIdle /\ ChoiceIdle /\ FmtIdle /\ SzIdle
    /\ StoreIdle
    /\ SubIdle

SpecClassify == SpecClassifyInit /\ [][Analyze]_vars

SpecInstallInit ==
    /\ platform \in Platforms
    /\ GitIdle
    /\ DlIdle
    /\ InstInit(ScenarioManifests, Paths)
    /\ SessIdle /\ GpuIdle /\ ProgIdle /\ EnvIdle /\ AcqIdle /\ ChoiceIdle /\ FmtIdle /\ SzIdle
    /\ StoreIdle
    /\ SubIdle

SpecInstall == SpecInstallInit /\ [][InstNext]_vars

SpecSessionInit ==
    /\ platform \in Platforms
    /\ GitIdle
    /\ DlIdle
    /\ InstIdle
    /\ SessInitial([Components -> BOOLEAN])
    /\ GpuIdle
    /\ ProgIdle
    /\ EnvIdle /\ AcqIdle /\ ChoiceIdle /\ FmtIdle /\ SzIdle
    /\ StoreIdle
    /\ SubIdle

SpecSession == SpecSessionInit /\ [][SessNext]_vars

SpecGpuInit ==
    /\ platform \in Platforms
    /\ GitIdle
    /\ DlIdle
    /\ InstIdle
    /\ SessIdle
    /\ GpuInit([smi : SmiOutcomes, devices : DeviceLists, renderer : Renderers])
    /\ ProgIdle
    /\ EnvIdle /\ AcqIdle /\ ChoiceIdle /\ FmtIdle /\ SzIdle
    /\ StoreIdle
    /\ SubIdle

SpecGpu == SpecGpuInit /\ [][GpuNext]_vars

SpecProgressInit ==
    /\ platform = "windows"
    /\ GitIdle
    /\ DlIdle
    /\ InstIdle
    /\ SessIdle
    /\ GpuIdle
    /\ ProgInit(SUBSET Components)
    /\ EnvIdle /\ AcqIdle /\ ChoiceIdle /\ FmtIdle /\ SzIdle
    /\ StoreIdle
    /\ SubIdle

SpecProgress == SpecProgressInit /\ [][ProgNext]_vars

SpecEnvInit ==
    /\ platform \in Platforms
    /\ GitIdle
    /\ DlIdle
    /\ InstIdle
    /\ SessIdle
    /\ GpuIdle
    /\ ProgIdle
    /\ EnvInit(RepoInputs)
    /\ AcqIdle /\ ChoiceIdle /\ FmtIdle /\ SzIdle
    /\ StoreIdle
    /\ SubIdle

SpecEnv == SpecEnvInit /\ [][EnvNext]_vars

SpecAcquireInit ==
    /\ platform \in Platforms
    /\ GitIdle
    /\ DlIdle
    /\ InstIdle
    /\ SessIdle
    /\ GpuIdle
    /\ ProgIdle
    /\ EnvIdle
    /\ AcqInit
    /\ ChoiceIdle /\ FmtIdle /\ SzIdle
    /\ StoreIdle
    /\ SubIdle

SpecAcquire == SpecAcquireInit /\ [][AcqNext]_vars

SpecChoiceInit ==
    /\ platform \in Platforms
    /\ GitIdle
    /\ DlIdle
    /\ InstIdle
    /\ SessIdle
    /\ GpuIdle
    /\ ProgIdle
    /\ EnvIdle
    /\ AcqIdle
    /\ ChoiceInit
    /\ FmtIdle /\ SzIdle
    /\ StoreIdle
    /\ SubIdle

SpecChoice == SpecChoiceInit /\ [][ChoiceNext]_vars

SpecHydrateInit ==
    /\ platform \in Platforms
    /\ GitIdle
    /\ DlIdle
    /\ InstIdle
    /\ SessIdle
    /\ GpuIdle
    /\ ProgIdle
    /\ EnvIdle
    /\ AcqIdle
    /\ HydrateInit
    /\ FmtIdle /\ SzIdle
    /\ StoreIdle
    /\ SubIdle

SpecHydrate == SpecHydrateInit /\ [][HydrateNext]_vars

SpecFormatInit ==
    /\ platform = "unix"
    /\ GitIdle
    /\ DlIdle
    /\ InstIdle
    /\ SessIdle
    /\ GpuIdle
    /\ ProgIdle
    /\ EnvIdle
    /\ AcqIdle
    /\ ChoiceIdle
    /\ FmtInit
    /\ SzIdle
    /\ StoreIdle
    /\ SubIdle

SpecFormat == SpecFormatInit /\ [][FormatFileSize]_vars

SpecSevenZipInit ==
    /\ platform = "windows"
    /\ GitIdle
    /\ DlIdle
    /\ InstIdle
    /\ SessIdle
    /\ GpuIdle
    /\ ProgIdle
    /\ EnvIdle
    /\ AcqIdle
    /\ ChoiceIdle
    /\ FmtIdle
    /\ SzInit
    /\ StoreIdle
    /\ SubIdle

SpecSevenZip == SpecSevenZipInit /\ [][SzNext]_vars

SpecStoreInit ==
    /\ platform \in Platforms
    /\ GitIdle
    /\ DlIdle
    /\ InstIdle
    /\ SessIdle
    /\ GpuIdle
    /\ ProgIdle
    /\ EnvIdle
    /\ AcqIdle
    /\ ChoiceIdle
    /\ FmtIdle
    /\ SzIdle
    /\ StoreInit
    /\ SubIdle

SpecStore == SpecStoreInit /\ [][StoreNext]_vars

SpecSubstInit ==
    /\ platform \in Platforms
    /\ GitIdle
    /\ DlIdle
    /\ InstIdle
    /\ SessIdle
    /\ GpuIdle
    /\ ProgIdle
    /\ EnvIdle
    /\ AcqIdle
    /\ ChoiceIdle
    /\ FmtIdle
    /\ SzIdle
    /\ StoreIdle
    /\ SubInit

SpecSubst == SpecSubstInit /\ [][SubNext]_vars

(***************************************************************************)
(* Properties of the repository lifecycle                                  *)
(***************************************************************************)
Pulls == Len(SelectSeq(gitLog, LAMBDA r : r.cmd = "pull"))

UpdateLog == SelectSeq(gitLog, LAMBDA r : r.cmd # "clone")

LastCmd == IF gitLog = <<>> THEN "none" ELSE gitLog[Len(gitLog)].cmd

\* The commands of the update loop come as pull, then (fetch origin,
\* reset --hard origin/main, pull) repeated: one remediation, in that
\* order, between two consecutive pulls, and nowhere else.
RepairBetweenPulls ==
    \A i \in 1..Len(UpdateLog) :
        /\ (UpdateLog[i].cmd = "pull" /\ i > 1) =>
              /\ i > 3
              /\ UpdateLog[i - 1].cmd = "reset --hard origin/main"
              /\ UpdateLog[i - 2].cmd = "fetch origin"
              /\ UpdateLog[i - 3].cmd = "pull"
        /\ UpdateLog[i].cmd = "fetch origin" => (i > 1 /\ UpdateLog[i - 1].cmd = "pull")
        /\ UpdateLog[i].cmd = "reset --hard origin/main" =>
              (i > 1 /\ UpdateLog[i - 1].cmd = "fetch origin")

\* A failed, unclassified pull that is not the third is followed by the
\* remediation: the loop is at the remediation or already past it.
RepairFollowsFailure ==
    (LastCmd = "pull" /\ pullErr # "" /\ ~IsCorruptionError(pullErr) /\ Pulls < 3)
        => gitPc = "fix_fetch"

\* C1: whenever the update step classifies a pull failure as corruption,
\* the working-tree directory no longer exists when the update operation
\* returns, whatever the directory removal did.  (The state right after the
\* return is the one where the ensure operation is about to clone.)
C1_DirGoneAfterCorruption ==
    (updateResult = CorruptedMsg /\ gitPc = "clone") => repoDir = "absent"

\* C6 (as the code has it): the update loop issues at most three pulls and
\* at most seven commands; between two pulls the remediation (fetch origin,
\* then reset --hard origin/main) runs exactly once; a failed pull that is
\* not classified as corruption and is not the third leads to the
\* remediation; and when the third pull fails without being classified as
\* corruption the loop returns 'Failed to update repository'.
C6_BoundedRepair ==
    /\ Pulls <= 3
    /\ Len(UpdateLog) <= 7
    /\ RepairBetweenPulls
    /\ RepairFollowsFailure
    /\ (Pulls = 3 /\ pullErr # "" /\ ~IsCorruptionError(pullErr))
          => (updateResult = FailedUpdateMsg /\ gitPc = "done")

\* C6 witness: three pulls were issued, the remediation ran twice, and the
\* loop gave up with 'Failed to update repository'.
C6_ThreePullsGaveUp ==
    /\ Pulls = 3
    /\ Len(UpdateLog) = 7
    /\ updateResult = FailedUpdateMsg

\* C6 as stated: the same, but every failure of the third pull makes the
\* loop return 'Failed to update repository'.
C6_ThirdFailureAlwaysGivesUp ==
    /\ Pulls <= 3
    /\ RepairBetweenPulls
    /\ (Pulls = 3 /\ pullErr # "") => updateResult = FailedUpdateMsg

\* C7: after the pull of an ensure on an existing tree is classified as
\* corruption, the next git command is a clone into the absent path; a
\* successful clone makes the ensure return Ok with a git tree; and the
\* ensure returns an error only after that clone was issued and failed.
C7_RecloneAfterCorruption ==
    updateResult = CorruptedMsg =>
        /\ \A i \in 1..Len(gitLog) :
              gitLog[i].cmd = "clone" => gitLog[i].pathState = "absent"
        /\ gitPc = "done" => LastCmd = "clone"
        /\ (gitPc = "done" /\ repoDir = "git" /\ LastCmd = "clone") => ensureResult = "Ok"
        /\ gitPc # "done" => ensureResult = "none"

\* C13: an ensure called on a path that exists without .git metadata
\* returns the "not a git repository" error, having issued no git command
\* and having left the directory as it was; and that error is returned in
\* no other case.
C13_NonGitDirectoryUntouched ==
    /\ (gitPc \notin {"idle", "start"} /\ gitLog = <<>> /\ repoDir \in {"empty", "nogit"})
          => (gitPc = "done" /\ ensureResult = NotGitMsg)
    /\ ensureResult = NotGitMsg
          => (gitLog = <<>> /\ repoDir \in {"empty", "nogit"} /\ attempt = 0)

C13_NonGitDirectoryRefused ==
    gitPc = "done" /\ ensureResult = NotGitMsg /\ repoDir = "nogit" /\ gitLog = <<>>

\* C14: once a pull of the update loop is classified as corruption, on
\* whichever attempt, that pull is the last command issued against the
\* working tree (no further pull, no remediation), the loop returns the
\* re-clone signal, and the directory has been deleted when it returns.
C14_CorruptionStopsTheLoop ==
    updateResult = CorruptedMsg =>
        /\ UpdateLog # <<>>
        /\ UpdateLog[Len(UpdateLog)].cmd = "pull"
        /\ IsCorruptionError(pullErr)
        /\ \A i \in 1..Len(gitLog) : gitLog[i].cmd = "clone" => i = Len(gitLog)
        /\ gitPc = "clone" => repoDir = "absent"

\* C15: a failed git pull is classified as corruption exactly when git
\* exited with code 128, on every platform and whatever it wrote to
\* standard error.
C15_CorruptionIffExit128 ==
    (LastCmd = "pull" /\ pullErr # "") => (updateResult = CorruptedMsg <=> pullCode = 128)

\* C16: when the ensure finds the path existing with .git metadata, the
\* git commands it issues are, in this order, a fetch of all remotes, a
\* hard reset to origin/main (to origin/master only right after it), and
\* only then the pull.
C16_FetchResetThenPull ==
    (gitLog # <<>> /\ gitLog[1].pathState = "git" /\ gitLog[1].cmd # "clone") =>
        /\ gitLog[1].cmd = "fetch --all"
        /\ \A i \in 1..Len(gitLog) :
              /\ gitLog[i].cmd = "pull" =>
                    \E j \in 1..(i - 1) : gitLog[j].cmd = "reset --hard origin/main"
              /\ gitLog[i].cmd = "reset --hard origin/master" =>
                    (i > 1 /\ gitLog[i - 1].cmd = "reset --hard origin/main")

(***************************************************************************)
(* Properties of the resumable download                                    *)
(***************************************************************************)
\* C2: the first request is a Range request from the on-disk length when
\* the destination holds bytes and a plain one when it is absent or empty;
\* and whenever the server does not honour the range, by an error status
\* or by sending the whole body, a download that returns Ok leaves exactly
\* one full copy of the artifact in the destination.
C2_UnhonouredRangeRestarts ==
    /\ requests # <<>> =>
          requests[1] = (IF existing_len > 0 THEN Ranged(existing_len) ELSE Plain)
    /\ (dlResult = "Ok" /\ requests # <<>> /\ requests[1].ranged /\ firstReply \in {"status", "full"})
          => destBytes = Remote

\* The download began with a partial file and the server honoured the
\* Range request with the bytes from the offset on.
ResumeHonoured ==
    /\ 0 < existing_len
    /\ existing_len < Len(Remote)
    /\ requests # <<>>
    /\ requests[1].ranged
    /\ firstReply = "partial"

\* C11: with a destination holding the first L bytes (0 < L < total) and a
\* server honouring the Range request, the first L bytes are never
\* rewritten, and a download that returns Ok leaves a file byte-identical
\* to the artifact, its length the total size.
C11_ResumeEqualsFreshDownload ==
    ResumeHonoured =>
        /\ SubSeq(destBytes, 1, existing_len) = SubSeq(Remote, 1, existing_len)
        /\ Len(requests) = 1
        /\ dlResult = "Ok" => destBytes = Remote /\ Len(destBytes) = ArtifactLen

C11_ResumedToCompletion == ResumeHonoured /\ dlResult = "Ok" /\ writePos = ArtifactLen

(***************************************************************************)
(* Properties of the manifest partition and of the plan execution          *)
(***************************************************************************)
BucketTypes == {"Regular", "Onnxruntime", "Torch", "Triton", "Insightface"}

\* A manifest line that is blank, holds only a comment, starts an option
\* directive, or declares a package index.
Discarded(l) ==
    \/ Trim(l) = ""
    \/ StartsWith(Trim(l), "#")
    \/ StartsWith(Trim(l), "-")
    \/ \E d \in {"--index-url", "--extra-index-url"} : Contains(Split(l, "#")[1], d)

Kept == {i \in DOMAIN manifest : ~Discarded(manifest[i])}

Holds(t, l) == \E k \in DOMAIN Bucket(plan, t) : Bucket(plan, t)[k].original_line = l

Names(t) == {Bucket(plan, t)[k].name : k \in DOMAIN Bucket(plan, t)}

\* C9: once the plan is built, every manifest line that is not discarded
\* is in exactly one of the five buckets, as many times as it occurs; the
\* bucket sizes sum to the number N of such lines; and no package name is
\* in two buckets.
C9_BucketsPartition ==
    instPc # "analyze" =>
        LET kept == Kept
        IN /\ Len(plan.regular_packages) + Len(plan.onnx_packages)
                + Len(plan.torch_packages) + Len(plan.triton_packages)
                + Len(plan.insightface_packages) = Cardinality(kept)
           /\ \A i \in kept :
                 /\ \E t \in BucketTypes :
                       /\ Holds(t, manifest[i])
                       /\ \A u \in BucketTypes \ {t} : ~Holds(u, manifest[i])
                       /\ Cardinality({k \in DOMAIN Bucket(plan, t) :
                                          Bucket(plan, t)[k].original_line = manifest[i]})
                            = Cardinality({j \in kept : manifest[j] = manifest[i]})
           /\ \A t, u \in BucketTypes : t # u => Names(t) \cap Names(u) = {}

\* C9 witness: a plan built from a manifest with a discarded line and
\* with packages in two different buckets.
C9_MixedManifestPlanned ==
    /\ instPc # "analyze"
    /\ Cardinality(Kept) < Len(manifest)
    /\ \E t, u \in BucketTypes : t # u /\ Bucket(plan, t) # <<>> /\ Bucket(plan, u) # <<>>

\* C3: on every platform and in every executor the invocations come in
\* the order Regular, Onnx, Torch, Triton, InsightFace, and an executor
\* that returns Ok has issued an invocation for every non-empty bucket.
C3_CanonicalBucketOrder ==
    LET canon == <<"Regular", "Onnxruntime", "Torch", "Triton", "Insightface">>
        rank(t) == CHOOSE j \in 1..5 : canon[j] = t
        issued == SelectSeq(invocations, LAMBDA v : v.kind # "reinstall")
    IN /\ \A i, j \in DOMAIN issued :
             i < j => rank(issued[i].bucket) <= rank(issued[j].bucket)
       /\ instResult = "Ok" =>
             \A t \in BucketTypes :
                Bucket(plan, t) # <<>> => \E i \in DOMAIN issued : issued[i].bucket = t

\* C4: when an invocation for the Regular, Onnx, Triton or InsightFace
\* bucket fails, the executor still issues the invocations of the buckets
\* that come after it before it returns.
C4_FailureDoesNotBlockLaterBuckets ==
    instPc = "done" =>
        \A i \in DOMAIN invocations :
            (/\ invocations[i].kind = "install"
             /\ ~invocations[i].ok
             /\ invocations[i].bucket \in {"Regular", "Onnxruntime", "Triton", "Insightface"})
            => \A t \in BucketTypes :
                  (/\ Place(instPath, t) > Place(instPath, invocations[i].bucket)
                   /\ Runs(instPath, platform, plan, t))
                  => \E j \in DOMAIN invocations : j > i /\ invocations[j].bucket = t

(***************************************************************************)
(* Properties of the session                                               *)
(***************************************************************************)
\* The components an install request needs: the three tools, and the CUDA
\* runtime when the profile plans one.
RequiredComponents == Tools \cup (IF cuda_plan THEN {"cuda"} ELSE {})

\* C5: no repository dependency installation begins until every toolchain
\* component (interpreter, VCS client, media tool, and the GPU runtime when
\* planned) is installed: an install request made while one is missing
\* never reaches dependency installation.
C5_ToolchainBeforeDependencies ==
    sessPc = "deps" => \A c \in RequiredComponents : marker[c]

ActivityKinds == {"request", "extract", "write"}

\* C10: an acquire invoked while the component's marker executable exists
\* reports Installed without a network request, an extraction process or a
\* file write; setup_environment_with_progress performs none of these for a
\* component whose marker existed when it began.  (The completion flag
\* that setup saves to the configuration file is the orchestrator's
\* write, not any component's acquire.)
C10_AcquireIsIdempotent ==
    /\ lastAcq.present => lastAcq.did = {} /\ lastAcq.result = "Ok"
    /\ \A c \in presentAtSetup : \A k \in ActivityKinds : <<c, k>> \notin setupDid

\* A second acquire of a component, after the first one installed it.
C10_SecondAcquireDidNothing ==
    /\ lastAcq.key \in Tools
    /\ lastAcq.again
    /\ lastAcq.present
    /\ lastAcq.did = {}

(***************************************************************************)
(* Properties of capability detection                                      *)
(***************************************************************************)
\* C8: capability detection returns a profile for every outcome of the
\* probes; a missing tool, a failing command or unparseable probe output
\* never yields an error to the caller.
C8_DetectionNeverFails ==
    /\ gpuPc \in {"best", "done"} => best.status # "Err"
    /\ gpuPc = "done" => gpu_config.status = "Ok"

(***************************************************************************)
(* Properties of the progress reporting                                    *)
(***************************************************************************)
\* C12: the read of the shared counter and the emission of the progress
\* callback for it happen inside one mutual-exclusion region shared by all
\* tasks: two tasks are never inside the callback at the same time, and
\* the value a task emits is the counter's value while it emits.
C12_ProgressIsSerialized ==
    /\ Cardinality({c \in Components : progPc[c] \in Emitting}) <= 1
    /\ \A c \in Components : progPc[c] \in Emitting => done_now[c] = completed


(***************************************************************************)
(* Properties of install_dependencies                                      *)
(***************************************************************************)
PmAt(i) == envLog[i] \in PmEvents

\* C17: every package-manager command of a run comes after the environment
\* directory was created in that run, an environment that existed before
\* was removed before that creation, and the directory then holds nothing
\* of the previous environment.
C17_EnvironmentRebuiltBeforePackages ==
    \A i \in 1..Len(envLog) :
        PmAt(i) =>
            /\ envDir = "fresh"
            /\ \E j \in 1..(i - 1) :
                  /\ envLog[j] = "create_env"
                  /\ repoInput.env = "old" =>
                        \E k \in 1..(j - 1) : envLog[k] = "remove_env"

C17_OldEnvironmentReplaced ==
    /\ repoInput.env = "old"
    /\ envResult = "Ok"
    /\ \E i \in 1..Len(envLog) : envLog[i] = "pm buckets"

ManifestMissing ==
    /\ repoInput.server = "none"
    /\ repoInput.pyproject = "none"
    /\ repoInput.manifest \in {"none", "unreadable"}

\* C18: a run that reaches the manifest lookup and finds no manifest, or
\* one that cannot be read, ends with an error and installs no bucket.
C18_MissingManifestAborts ==
    (envPc = "done" /\ ManifestMissing /\ envDir = "fresh" /\ Len(envLog) > 0)
        => /\ envResult # "Ok"
           /\ \A i \in 1..Len(envLog) : envLog[i] # "pm buckets"

(***************************************************************************)
(* Properties of the torch retry and of the uv fallback                    *)
(***************************************************************************)
IsTorch(v, kind) == v.bucket = "Torch" /\ v.kind = kind

Unpinned(arg) == Find(arg, VersionOperators) = 0

BucketInvocation(v) == v.kind \in {"install", "retry"}

\* C20: when an invocation of uv for a bucket has failed, the next
\* invocation installs the same bucket with pip, and the executor returns
\* an error only if an invocation of pip has failed as well.
C20_UvFailureFallsBackToPip ==
    instPc = "done" =>
        \A i \in DOMAIN invocations :
            LET v == invocations[i]
            IN (BucketInvocation(v) /\ v.tool = "uv" /\ ~v.ok) =>
                 /\ i < Len(invocations)
                 /\ i < Len(invocations) =>
                       /\ invocations[i + 1].bucket = v.bucket
                       /\ invocations[i + 1].tool = "pip"
                 /\ instResult = "Err" =>
                       \E j \in DOMAIN invocations :
                           invocations[j].tool = "pip" /\ ~invocations[j].ok

(***************************************************************************)
(* Properties of the torch check, of the bucket invocations and of a       *)
(* failure in the middle of a download                                     *)
(***************************************************************************)
\* C21: the forced torch reinstall is issued only after an invocation for
\* every bucket that runs, and only when the manifest listed no torch
\* package (the torch bucket is empty).
C21_ReinstallOnlyForTransitiveTorch ==
    \A i \in DOMAIN invocations :
        invocations[i].kind = "reinstall" =>
            /\ \A t \in BucketTypes :
                  Runs(instPath, platform, plan, t)
                     => \E j \in 1..(i - 1) : invocations[j].bucket = t
            /\ plan.torch_packages = <<>>

InstallsOf(t) ==
    {i \in DOMAIN invocations :
        invocations[i].bucket = t /\ invocations[i].kind = "install"}

\* C22: an executor that returns Ok has issued exactly one install
\* invocation for every non-empty bucket of the plan, on both platforms.
C22_OneInvocationPerBucket ==
    (instPc = "done" /\ instResult = "Ok") =>
        \A t \in BucketTypes :
            Bucket(plan, t) # <<>> => Cardinality(InstallsOf(t)) = 1

\* The bytes this call has written to the destination.
BytesWritten == writePos - (IF Len(requests) = 2 THEN 0 ELSE existing_len)

\* C24: a read error after some bytes of the body were written does not
\* end the download with that error.
C24_TransientFailureRetried ==
    (dlPc = "done" /\ BytesWritten > 0) => dlResult # "IO error"

(***************************************************************************)
(* Properties of the classification of requirement lines                   *)
(***************************************************************************)
\* The bare package name of a line: the text before a comment, before the
\* first version operator and before the extras, trimmed, in lower case.
BareName(l) ==
    LET code == Split(l, "#")[1]
        op == Find(code, VersionOperators)
        spec == IF op = 0 THEN code ELSE SubSeq(code, 1, op - 1)
        ex == Find(spec, {"["})
    IN ToLower(Trim(IF ex = 0 THEN spec ELSE SubSeq(spec, 1, ex - 1)))

Family(name) ==
    IF name \in {"torch", "torchvision", "torchaudio", "torchtext", "torchdata"} THEN "Torch"
    ELSE IF StartsWith(name, "onnxruntime") THEN "Onnxruntime"
    ELSE IF StartsWith(name, "insightface") THEN "Insightface"
    ELSE IF StartsWith(name, "triton") THEN "Triton"
    ELSE "Regular"

\* C29: once the plan is built, every requirement line that is kept lies in
\* the bucket of the family of its bare name, compared in lower case: torch
\* for exactly the five torch names, then onnxruntime, insightface and
\* triton by prefix, else regular.
C29_ClassifiedByBareName ==
    instPc # "analyze" =>
        \A i \in DOMAIN manifest :
            ~Discarded(manifest[i]) =>
                \A t \in BucketTypes :
                    Holds(t, manifest[i]) <=> t = Family(BareName(manifest[i]))

C29_MixedCaseTorchLineClassified ==
    /\ instPc # "analyze"
    /\ manifest = <<"torchaudio[extra]==2.1  # audio">>
    /\ Len(plan.torch_packages) = 1
    /\ plan.torch_packages[1].name = "torchaudio"

\* The command met an error it did not recover from: in the lifecycle
\* step, in the dependency installation or in the steps after it.
Unrecovered ==
    \/ repoInput.lifecycle = "failed"
    \/ repoInput.op = "update" /\ repoInput.lifecycle = "missing"
    \/ envResult \notin {"Ok", "none"}
    \/ \E i \in DOMAIN envLog : envLog[i] = "script failed"

\* C28: the process exits with 0 exactly when the install or update
\* command met no unrecovered error, and with a non-zero code otherwise.
C28_ExitCodeReflectsErrors ==
    envPc = "exited" => (exitCode = 0 <=> ~Unrecovered)

\* C23: the acquisition of a component reports success only if its marker
\* exists afterwards and the archive it downloaded has been deleted.
C23_SuccessMeansMarkerAndNoArchive ==
    (acqPc = "done" /\ acqResult = "Ok") => (markerPresent /\ archive # "full")

\* The vendor configure_gpu takes a device name for.
VendorOf(name) ==
    LET up == ToUpper(name)
    IN IF \E w \in {"NVIDIA", "GEFORCE", "QUADRO", "TESLA", "RTX", "GTX"} : Contains(up, w)
         THEN "Nvidia"
       ELSE IF Contains(up, "AMD") \/ Contains(up, "RADEON") \/ Contains(up, "RX ")
         THEN "Amd"
       ELSE IF \E w \in {"INTEL", "UHD", "IRIS", "ARC"} : Contains(up, w) THEN "Intel"
       ELSE "Unknown"

\* The backend of the decision table for a stored profile on a platform.
TableBackend(p, plat) ==
    LET vendor == VendorOf(p.name)
    IN IF vendor = "Nvidia" /\ p.generation # "Unknown"
         THEN IF /\ p.cuda_version \in {"Cuda124", "Cuda128"}
                 /\ p.generation \in {"Turing", "Ampere", "AdaLovelace", "Blackwell"}
                THEN "cuda,tensorrt"
                ELSE "cuda"
       ELSE IF vendor = "Amd" /\ plat = "windows" THEN "dml"
       ELSE IF vendor = "Intel" THEN "openvino"
       ELSE "cpu"

\* C25: the recommended backend of the profile is the one of the decision
\* table (Nvidia with a known generation: cuda, with tensorrt for CUDA 12.4
\* or 12.8 from Turing on; Amd: dml on Windows only; Intel: openvino; cpu
\* otherwise), and "NVIDIA GeForce RTX 4090" is AdaLovelace with
\* cuda,tensorrt.
C25_BackendFollowsDecisionTable ==
    choicePc = "plan" =>
        /\ profile.recommended_backend = TableBackend(profile, platform)
        /\ profile.supports_tensorrt = (profile.recommended_backend = "cuda,tensorrt")
        /\ deviceName = "NVIDIA GeForce RTX 4090" =>
              /\ profile.generation = "AdaLovelace"
              /\ profile.recommended_backend = "cuda,tensorrt"

\* C26: a device name that is a pattern of the generation table gets the
\* generation the pattern is listed under, on every call; a name without a
\* matching pattern gets Unknown.
C26_PatternGivesItsGeneration ==
    choicePc = "plan" =>
        /\ \A g \in DOMAIN gpu_patterns :
              deviceName \in gpu_patterns[g] => profile.generation = g
        /\ (\A g \in DOMAIN gpu_patterns : \A pat \in gpu_patterns[g] :
               ~Contains(ToUpper(deviceName), pat)) => profile.generation = "Unknown"

\* C27: all installations under one profile choose the same torch index
\* and the same onnxruntime package.
C27_ChoicesDependOnProfileOnly ==
    \A i, j \in DOMAIN planRuns :
        /\ planRuns[i].torch_index_url = planRuns[j].torch_index_url
        /\ planRuns[i].onnx_spec = planRuns[j].onnx_spec

\* C30: the onnxruntime nightly flag is set exactly when the nightly torch
\* index is chosen, and "RTX 5090" gets both.
C30_NightlyFlagIffNightlyIndex ==
    \A i \in DOMAIN planRuns :
        /\ planRuns[i].onnx_nightly <=> planRuns[i].torch_index_url = NightlyIndex
        /\ deviceName = "RTX 5090" => planRuns[i].onnx_nightly

TableIndexes ==
    {"https://download.pytorch.org/whl/cpu", "https://download.pytorch.org/whl/cu118",
     "https://download.pytorch.org/whl/cu124"}

\* C31: the torch index is the nightly index exactly when the generation
\* is Blackwell or the system CUDA is 12.8, and one of the cpu, cu118 and
\* cu124 indexes of the version table otherwise.
C31_NightlyIffBlackwellOrCuda128 ==
    \A i \in DOMAIN planRuns :
        /\ planRuns[i].torch_index_url = NightlyIndex
              <=> \/ profile.generation = "Blackwell"
                  \/ detect_cuda_version_from_system(planRuns[i].nvcc) = "Cuda128"
        /\ planRuns[i].torch_index_url # NightlyIndex
              => planRuns[i].torch_index_url \in TableIndexes

\* The onnxruntime package of the vendor table.
VendorOnnxName(p, plat) ==
    IF VendorOf(p.name) = "Nvidia" THEN "onnxruntime-gpu"
    ELSE IF VendorOf(p.name) \in {"Amd", "Intel"} /\ plat = "windows"
      THEN "onnxruntime-directml"
    ELSE "onnxruntime"

\* C32: an onnxruntime line of the manifest is installed under the name of
\* the vendor table, with the version pin of the line carried over.
C32_OnnxNameByVendorWithPin ==
    \A i \in DOMAIN planRuns :
        /\ onnxLine = "onnxruntime==1.16.0"
              => planRuns[i].onnx_installed
                    = VendorOnnxName(profile, platform) \o "==1.16.0"
        /\ onnxLine = "onnxruntime"
              => planRuns[i].onnx_installed = VendorOnnxName(profile, platform)

C34_ProfileImmutableOnceCreated ==
    [][choicePc = "plan" => profile' = profile]_vars

\* C35: a successful installation of a manifest that lists insightface has
\* installed it together with numpy==1.26.4, from the prebuilt wheel on
\* Windows and as the published package elsewhere.
C35_InsightfaceInstalledWithNumpyPin ==
    (instPc = "done" /\ instResult = "Ok" /\ plan.insightface_packages # <<>>) =>
        \E i \in DOMAIN invocations :
            /\ invocations[i].bucket = "Insightface"
            /\ invocations[i].ok
            /\ invocations[i].pkg =
                  IF platform = "windows"
                    THEN InsightfaceWheel \o " numpy==1.26.4"
                    ELSE "insightface numpy==1.26.4"

UnitNames == <<"B", "KB", "MB", "GB", "TB">>

\* The index of the largest unit whose power of 1024 does not exceed the
\* size, capped at TB (0 for a size below 1024).
UnitOf(digits) ==
    IF digits = <<>> THEN 0
    ELSE IF Len(digits) - 1 < 4 THEN Len(digits) - 1 ELSE 4

\* The text before the unit and the space in front of it.
NumberText(text, unit) == SubSeq(text, 1, Len(text) - Len(unit) - 1)

\* C36: format_file_size uses the largest unit among B, KB, MB, GB, TB
\* whose power of 1024 does not exceed the size; a size below 1024 is
\* printed as the exact integer and " B", a larger one with one decimal
\* place; 0 is "0 B", 1024 is "1.0 KB", 1536 is "1.5 KB", 1048576 is
\* "1.0 MB".
C36_LargestUnitOneDecimal ==
    fmtPc = "done" =>
        LET unit == UnitNames[UnitOf(size_bytes) + 1]
            number == NumberText(formatted, unit)
        IN /\ SubSeq(formatted, Len(formatted) - Len(unit), Len(formatted)) = " " \o unit
           /\ UnitOf(size_bytes) = 0 => number = Dec(Value(size_bytes))
           /\ UnitOf(size_bytes) > 0 =>
                 /\ Len(number) >= 3
                 /\ Char(number, Len(number) - 1) = "."
                 /\ Contains(Digits, Char(number, Len(number)))
                 /\ \A i \in 1..(Len(number) - 2) : Contains(Digits, Char(number, i))
           /\ size_bytes = <<>> => formatted = "0 B"
           /\ size_bytes = <<512>> => formatted = "512 B"
           /\ size_bytes = <<1, 0>> => formatted = "1.0 KB"
           /\ size_bytes = <<1, 512>> => formatted = "1.5 KB"
           /\ size_bytes = <<1, 0, 0>> => formatted = "1.0 MB"

\* A size of a thousand terabytes and more was formatted in TB.
C36_CappedAtTerabytes ==
    /\ fmtPc = "done"
    /\ size_bytes = <<1, 512, 0, 0, 0, 0>>
    /\ formatted = "1536.0 TB"

\* C37: at most one task downloads the missing 7z.exe, and no task runs
\* the file or resumes writing it while another task is writing it.
C37_UnpackUtilityFetchedOnce ==
    /\ Cardinality(szDownloaded) <= 1
    /\ szRaces = {}

\* C38: when setup_environment_with_progress has returned, none of the
\* tasks it spawned is still running.
C38_AllTasksJoinedOnReturn ==
    sessPc # "setup" => InFlight = {}

(***************************************************************************)
(* Properties of installed repositories                                    *)
(***************************************************************************)
\* C39: after a repository has been installed and then deleted by the name
\* under which it is listed, neither its working tree under repos/ nor the
\* environment directory its install created under envs/ exists.
C39_DeleteRemovesTreeAndEnvironment ==
    (storePc = "deleted" /\ lastDelete.envs # {}) =>
        /\ ~DirExists(repos, lastDelete.name)
        /\ \A e \in lastDelete.envs : ~DirExists(envs, e)

(***************************************************************************)
(* Properties of the onnxruntime name substitution                         *)
(***************************************************************************)
NamesVendorVariant(spec) ==
    StartsWith(spec, "onnxruntime-gpu") \/ StartsWith(spec, "onnxruntime-directml")

\* C40: the onnxruntime name substitution is idempotent: a spec that already
\* names the vendor variant (onnxruntime-gpu or onnxruntime-directml, with or
\* without a version constraint) is returned unchanged, and applying the
\* substitution twice gives what applying it once gives.
C40_OnnxSubstitutionIdempotent ==
    /\ (subPc \in {"once", "twice"} /\ NamesVendorVariant(subBase)) => subOnce = subBase
    /\ subPc = "twice" => subTwice = subOnce

====
